---------------------------- MODULE Spec2Model ----------------------------
(***************************************************************************)
(* A model of the command scheduler of arunsmiles/earningstranscripts:     *)
(*   scheduler/jobs.py     HistoryStore, CommandExecutor                   *)
(*   scheduler/service.py  SchedulerService, liveness registry             *)
(*   scheduler/config.py   SchedulerConfig                                 *)
(*   scheduler/cli.py      cmd_start and the job-management commands       *)
(*                                                                         *)
(* The module holds several specifications over one set of variables:     *)
(*   SpecRetry     one executor running execute_with_retry, run after run  *)
(*   SpecSvc       two processes starting/stopping a service on one data   *)
(*                 directory (PID file, info file)                         *)
(*   SpecLoad      one service restarted over a persistent job store while *)
(*                 the configuration file is edited between runs           *)
(*   SpecDispatch  the dispatch loop of one running scheduler              *)
(*   SpecEngine    that loop with stop, kill, restart and one-shot jobs    *)
(*   SpecInterval  the fire times of one interval job                      *)
(*   SpecDaily     the next fire time of one daily job                     *)
(*   SpecHistRace  two writers of the history file                         *)
(*   SpecHistSeq   history calls made one after the other                  *)
(*   SpecStore     the job list of a SchedulerConfig and its file          *)
(*   SpecJobOps    removals and updates on that list and on the jobs of    *)
(*                 the scheduler                                           *)
(*   SpecExec      one call of execute_command and its subprocess          *)
(*   SpecPub       the PID and info files under _write_pid_file and        *)
(*                 _remove_pid_file                                        *)
(*   SpecStop      a running service that is sent SIGTERM                  *)
(*   SpecValidate  validate() applied to a configuration                   *)
(*   SpecObserve   a CLI command reading the history next to a live        *)
(*                 scheduler                                               *)
(*   SpecOnce      run-once --at / --background next to a live scheduler   *)
(*   SpecRetryOthers, SpecSvcStop, SpecExecLive: SpecRetry with the        *)
(*                 add_run calls of other runs, SpecSvc with cmd_stop,     *)
(*                 SpecExec with fairness                                  *)
(* Each specification leaves the variables of the others at their initial  *)
(* values.                                                                 *)
(***************************************************************************)
EXTENDS Integers, Sequences, FiniteSets, TLC

\* ---------------------------------------------------------------- bounds
MaxRetriesCfg == 3      \* largest error_handling.max_retries explored
MaxRuns == 2            \* logical runs made one after the other
MaxEntries == 2         \* HistoryStore.max_entries explored (default 1000)
MaxTime == 4            \* the dispatch loop is followed over 0..MaxTime
MaxFires == 3           \* fire times of an interval job followed
DayHours == 2           \* hours of the day explored for daily jobs (24)
HourMinutes == 2        \* minutes of the hour explored for daily jobs (60)
MaxDays == 3            \* a daily job is followed over days 0..MaxDays-1
MaxJobs == 3            \* jobs in the job list of a SchedulerConfig
MaxAdds == 5            \* add_run calls made one after the other
MaxTimeout == 2         \* largest timeout of execute_command explored
MaxClock == 4           \* a call of execute_command is followed over 0..MaxClock
MaxNow == 2             \* _write_pid_file is called at times 0..MaxNow
MaxHooks == 3           \* calls of _write_pid_file in one process
MaxDelay == 2           \* largest retry_delay_minutes explored (default 15)
MaxLeft == 12           \* seconds a run in flight has to go when SIGTERM comes
Workers == 1            \* max_workers of the pool explored (default 5)

\* Python's None, and a present value, for nullable fields.
None == << >>
Some(v) == << v >>

VARIABLES
    \* --- execute_with_retry (jobs.py:354-495) and the history file
    r_pc,        \* "idle" | "loop" | "sleep" | "returned" | "raised"
    r_max,       \* max_retries of the current run
    r_attempt,   \* local variable attempt
    r_outs,      \* outcomes of the execute_command calls of the current run
    r_sleeps,    \* retry sleeps taken in the current run
    r_delay,     \* retry_delay_minutes of the current run
    r_slept,     \* the seconds of each time.sleep of the current run
    r_id,        \* run_id of the current run (0: none yet)
    r_stats,     \* stats returned by / stored at the end of the current run
    history,     \* content of scheduler_history.json: a list of records
    \* --- processes running `job-scheduler start` (cli.py:84-128) and the
    \*     files of the data directory
    alive,       \* alive[p]: process p exists
    mode,        \* mode[p]: "fg" (--foreground, BlockingScheduler) | "bg"
    spc,         \* spc[p]: where process p's main thread or handler is
    running,     \* running[p]: self.scheduler.running of p's service
    atexitReg,   \* atexitReg[p]: _remove_pid_file registered with atexit
    everRan,     \* everRan[p]: p's scheduler has been started
    svcCfg,      \* svcCfg[p]: the configuration p read in __init__
    table,       \* table[p]: job ids p's scheduler holds (pending, then live)
    isr,         \* isr[p]: what is_scheduler_running() last returned to p
    envSet,      \* EARNINGS_DATA_DIR / SCHEDULER_PID_FILE name another place
    pidFile,     \* pidFile[path]: content of a scheduler.pid file
    infoFile,    \* content of scheduler_info.json
    cfgFile,     \* content of the configuration file: name -> job
    jobStore,    \* job ids in the SQLite job store
    last,        \* the operation that made the last step, and its process
    \* --- the dispatch loop of one running scheduler
    d_now,       \* the clock
    d_next,      \* d_next[j]: next_run_time of job j in the job store
    d_inst,      \* d_inst[j]: the executor's count of instances of job j
    d_execs,     \* executions submitted to the pool and not yet over
    d_skipped,   \* d_skipped[j]: ticks of j skipped at the instance limit
    \* --- the engine around the dispatch loop: stop, restart, one-shot jobs
    d_state,     \* scheduler.state: "running" | "stopped"
    d_stop,      \* where stop() is: "idle" | "shutdown" | "remove" |
                 \* "returned"; "dead" when the process was killed
    d_info,      \* the PID and info files of this engine exist
    d_once,      \* d_once[o]: run_date of one-shot job o in the job store
    d_pending,   \* d_pending[o]: run_date of o in the pending list of a
                 \* scheduler that has not been started
    d_runs,      \* d_runs[j]: calls of execute_scheduled_command for j
    d_missed,    \* d_missed[j]: runs of j dropped as missed
    d_outcome,   \* the run that ended last: its job, and whether it raised
    d_since,     \* the time of the last start of the scheduler
    \* --- one interval job in a running scheduler, times in seconds
    i_sched,     \* the ScheduleConfig of the job
    i_now,       \* the clock
    i_next,      \* next_run_time of the job
    i_fired,     \* the fire times of the job so far, in order
    i_run,       \* the fire time whose run is in flight, if any
    \* --- one daily job, times in instants (two to the minute)
    c_sched,     \* the ScheduleConfig of the job
    c_now,       \* the clock
    c_next,      \* next_run_time of the job, once it is added
    c_at,        \* the instant at which c_next was computed
    c_prev,      \* the previous fire time c_next was computed from
    \* --- writers of the history file
    h_max,       \* max_entries of the HistoryStore
    h_all,       \* the run ids passed to add_run so far, in order
    h_pc,        \* h_pc[w]: where writer w is in add_run / update_run
    h_local,     \* h_local[w]: the list writer w has read and changed
    h_trunc,     \* the history file is open for writing and still empty
    \* --- one SchedulerConfig object and its file
    s_jobs,      \* self.jobs: the list of jobs, each a name and enabled
    s_file,      \* the 'schedules' list of the configuration file
    s_ret,       \* what the last call returned, or "raised"
    s_call,      \* the last call: its name, the job name and argument
    s_table,     \* the ids of the jobs the scheduler of the service holds
    \* --- one call of execute_command and the subprocess it starts, times
    \*     in units of the clock since Popen
    x_pc,        \* "idle" | "read" | "wait" | "join" | "returned" | "raised"
    x_stream,    \* stream_output
    x_timeout,   \* timeout
    x_clock,     \* the time since the subprocess was started
    x_wait_at,   \* the time at which process.wait(timeout) was called
    x_shell,     \* the process Popen started: "none" | "running" |
                 \* "exited" | "killed"
    x_code,      \* process.returncode once the shell is over
    x_exit_at,   \* the time at which the shell was over
    x_out,       \* the write end of the stdout pipe is still held
    x_kids,      \* the descendants of the shell: "none" | "running" | "over"
    x_exc,       \* the exception execute_command raised, if any
    x_result,    \* the dict execute_command returned, if any
    \* --- one service calling _write_pid_file and _remove_pid_file
    w_pid,       \* the text of the PID file, a list of PIDs, if it exists
    w_info,      \* the fields of the info file, if it exists
    w_now,       \* datetime.now()
    w_writable,  \* the info file can be opened for writing
    w_hooks,     \* registrations of _remove_pid_file with atexit
    w_last,      \* the last call: "none" | "write" | "remove" | "other"
    w_streak,    \* how many times in a row the last call was made (1, 2)
    w_raised,    \* the last call raised
    \* --- one running service that is sent SIGTERM, times in seconds
    g_pc,        \* the service: "running" | "shutdown" | "remove" | "exit" |
                 \* "gone" | "killed"
    g_left,      \* seconds the run in flight still takes (0: no run)
    g_status,    \* the status of that run in the history: "none" |
                 \* "running" | "final"
    g_pid,       \* the PID file exists
    g_info,      \* the info file exists
    g_cmd,       \* cmd_stop: "idle" | "sleep" | "check" | "done"
    g_polls,     \* polls cmd_stop has made
    \* --- one configuration given to validate()
    v_cfg,       \* the configuration: name -> None | Some(job)
    v_errors,    \* None | Some(the errors validate() returned)
    \* --- a live scheduler recording a run, and an observer process
    q_file,      \* the history file: None (missing) | Some(list)
    q_pid,       \* the PID file of the live scheduler
    q_lpc,       \* where the live scheduler is in its HistoryStore calls
    q_llocal,    \* the list the live scheduler has read and changed
    q_opc,       \* where the observer's command is
    q_seen,      \* None | Some(what get_history returned to the observer)
    q_actor,     \* who took the last step: "init" | "live" | "obs"
    \* --- run-once commands beside a running scheduler
    u_store,     \* the ids of the jobs in the persistent job store
    u_cli,       \* u_cli[c]: "off" | "built" | "returned" | "exited"
    u_pending,   \* u_pending[c]: pending jobs of the scheduler object of c
    u_seen,      \* None | Some(ids get_persisted_jobs returned last)
    u_ran        \* the ids of the jobs the running scheduler has executed

retryVars ==
    << r_pc, r_max, r_attempt, r_outs, r_sleeps, r_delay, r_slept, r_id,
       r_stats, history >>

procVars == << alive, mode, spc, running, atexitReg, everRan, svcCfg, table, isr >>

fileVars == << envSet, pidFile, infoFile, cfgFile, jobStore >>

svcVars == << procVars, fileVars, last >>

dispVars == << d_now, d_next, d_inst, d_execs, d_skipped >>

engVars ==
    << d_state, d_stop, d_info, d_once, d_pending, d_runs, d_missed, d_outcome,
       d_since >>

intervalVars == << i_sched, i_now, i_next, i_fired, i_run >>

dailyVars == << c_sched, c_now, c_next, c_at, c_prev >>

histVars == << h_max, h_all, h_pc, h_local, h_trunc >>

retryLocals ==
    << r_pc, r_max, r_attempt, r_outs, r_sleeps, r_delay, r_slept, r_id,
       r_stats >>

storeVars == << s_jobs, s_file, s_ret, s_call, s_table >>

execVars ==
    << x_pc, x_stream, x_timeout, x_clock, x_wait_at, x_shell, x_code,
       x_exit_at, x_out, x_kids, x_exc, x_result >>

pubVars ==
    << w_pid, w_info, w_now, w_writable, w_hooks, w_last, w_streak, w_raised >>

stopVars == << g_pc, g_left, g_status, g_pid, g_info, g_cmd, g_polls >>

valVars == << v_cfg, v_errors >>

obsVars == << q_file, q_pid, q_lpc, q_llocal, q_opc, q_seen, q_actor >>

onceVars == << u_store, u_cli, u_pending, u_seen, u_ran >>

moreVars ==
    << intervalVars, dailyVars, histVars, storeVars, execVars, pubVars,
       stopVars, valVars, obsVars, onceVars >>

coreVars == << retryVars, svcVars, dispVars, engVars >>

baseVars == << coreVars, intervalVars, dailyVars, histVars, storeVars >>

vars == << coreVars, moreVars >>

(***************************************************************************)
(* History store (jobs.py:37-178)                                          *)
(***************************************************************************)
\* history[-max_entries:]
\* history[-n:]: the last n items for n > 0; for n <= 0 the slice starts
\* at index -n, which keeps the whole list when n = 0.
LastN(h, n) ==
    IF n > 0
    THEN IF Len(h) > n THEN SubSeq(h, Len(h) - n + 1, Len(h)) ELSE h
    ELSE SubSeq(h, 1 - n, Len(h))

add_run_keeps_oldest(h, record, max_entries) ==
    LET appended == Append(h, record)
    IN  IF Len(appended) > max_entries THEN SubSeq(appended, 1, max_entries)
        ELSE appended

\* HistoryStore.add_run: read, append, trim to the most recent, write.
add_run(h, record, max_entries) ==
    LET appended == Append(h, record)
    IN  IF Len(appended) > max_entries THEN LastN(appended, max_entries)
        ELSE appended

\* The first index whose record has this run_id (0: none).
FirstIndexOf(h, run_id) ==
    IF \E i \in 1..Len(h) : h[i].run_id = run_id
    THEN CHOOSE i \in 1..Len(h) :
            /\ h[i].run_id = run_id
            /\ \A k \in 1..(i - 1) : h[k].run_id # run_id
    ELSE 0

\* dict.update: the fields named in updates replace those of the record.
RecordUpdate(record, updates) ==
    [f \in DOMAIN record |->
        IF f \in DOMAIN updates THEN updates[f] ELSE record[f]]

\* HistoryStore.update_run: the first record with the run_id is updated;
\* when there is none the history is written back unchanged.
update_run(h, run_id, updates) ==
    LET i == FirstIndexOf(h, run_id)
    IN  IF i = 0 THEN h
        ELSE [h EXCEPT ![i] = RecordUpdate(h[i], updates)]

RecordsOf(h, run_id) == { i \in 1..Len(h) : h[i].run_id = run_id }

(***************************************************************************)
(* CommandExecutor.execute_command (jobs.py:209-352), by its outcome       *)
(***************************************************************************)
\* What a subprocess can do: exit 0, exit non-zero, run past the timeout.
Outcomes == { "exit0", "exit1", "timeout" }

\* The result of execute_command: a dict with returncode, or a raised
\* JobExecutionError with its message.
execute_command(outcome) ==
    CASE outcome = "exit0"   -> [raised |-> FALSE, returncode |-> Some(0),
                                 error |-> None]
      [] outcome = "exit1"   -> [raised |-> TRUE, returncode |-> Some(1),
                                 error |-> Some("exit code 1")]
      [] outcome = "timeout" -> [raised |-> TRUE, returncode |-> None,
                                 error |-> Some("timed out")]

(***************************************************************************)
(* CommandExecutor.execute_with_retry (jobs.py:354-495)                    *)
(***************************************************************************)
\* The values error_handling.max_retries can take: no validation restricts
\* it (config.py:78-84, 153-154).
RetryValues == (-1)..MaxRetriesCfg

LoopContinuesOffByOne(attempt, max_retries) == attempt <= max_retries

\* while attempt < max_retries
LoopContinues(attempt, max_retries) == attempt < max_retries

SuccessAttemptsStale(attempt) == attempt

\* 'attempts': attempt + 1
SuccessAttempts(attempt) == attempt + 1

\* The record written when the run starts (jobs.py:396-407).
RunningRecord(run_id) ==
    [ run_id |-> run_id, status |-> "running", attempts |-> 0,
      exit_code |-> None, end_time |-> None, elapsed_seconds |-> None,
      error |-> None ]

\* Entry: generate the run id, add the 'running' record.
RetryBegin ==
    /\ UNCHANGED << svcVars, dispVars, engVars, moreVars >>
    /\ r_pc = "idle"
    /\ r_id < MaxRuns
    /\ \E d \in 1..MaxDelay : r_delay' = d
    /\ \E n \in RetryValues :
        /\ r_max' = n
        /\ r_id' = r_id + 1
        /\ r_attempt' = 0
        /\ r_outs' = << >>
        /\ r_sleeps' = 0
        /\ r_slept' = << >>
        /\ r_stats' = None
        /\ history' = add_run(history, RunningRecord(r_id + 1), MaxEntries)
        /\ r_pc' = "loop"

\* One pass of the loop body: the call of execute_command and what follows.
RetryAttempt ==
    /\ UNCHANGED << svcVars, dispVars, engVars, moreVars >>
    /\ r_pc = "loop"
    /\ LoopContinues(r_attempt, r_max)
    /\ \E o \in Outcomes :
        LET result == execute_command(o)
        IN  /\ r_outs' = Append(r_outs, o)
            /\ IF ~result.raised
               THEN \* success: stats, history update, return
                    /\ r_stats' = Some([status |-> "success",
                                        attempts |-> SuccessAttempts(r_attempt),
                                        returncode |-> result.returncode])
                    /\ history' = update_run(history, r_id,
                          [ end_time |-> Some("t"), elapsed_seconds |-> Some("d"),
                            status |-> "success",
                            exit_code |-> result.returncode,
                            attempts |-> SuccessAttempts(r_attempt) ])
                    /\ r_pc' = "returned"
                    /\ UNCHANGED << r_attempt, r_sleeps >>
               ELSE \* except JobExecutionError
                    /\ r_attempt' = r_attempt + 1
                    /\ r_pc' = IF r_attempt + 1 < r_max THEN "sleep" ELSE "loop"
                    /\ UNCHANGED << history, r_sleeps, r_stats >>
    /\ UNCHANGED << r_max, r_id, r_delay, r_slept >>

delay_seconds_in_minutes(retry_delay_minutes) == retry_delay_minutes

\* delay_seconds = retry_delay_minutes * 60
delay_seconds(retry_delay_minutes) == retry_delay_minutes * 60

\* time.sleep(delay_seconds) returns.
RetrySleep ==
    /\ UNCHANGED << svcVars, dispVars, engVars, moreVars >>
    /\ r_pc = "sleep"
    /\ r_sleeps' = r_sleeps + 1
    /\ r_slept' = Append(r_slept, delay_seconds(r_delay))
    /\ r_pc' = "loop"
    /\ UNCHANGED << r_max, r_attempt, r_outs, r_delay, r_id, r_stats, history >>

\* str(last_error): last_error is still None when no attempt was made, and
\* str(None) is the string 'None'.
str_last_error(outs) == IF outs = << >> THEN "None" ELSE "last_error"

\* The loop is left without a success: record the failure and raise.
RetryExhausted ==
    /\ UNCHANGED << svcVars, dispVars, engVars, moreVars >>
    /\ r_pc = "loop"
    /\ ~LoopContinues(r_attempt, r_max)
    /\ r_stats' = Some([status |-> "failed", attempts |-> r_max,
                        returncode |-> None])
    /\ history' = update_run(history, r_id,
          [ end_time |-> Some("t"), elapsed_seconds |-> Some("d"),
            status |-> "failed", attempts |-> r_max,
            error |-> Some(str_last_error(r_outs)) ])
    /\ r_pc' = "raised"
    /\ UNCHANGED << r_max, r_attempt, r_outs, r_sleeps, r_delay, r_slept, r_id >>

\* The caller (a pool worker) takes the result; the executor is free again.
RetryDone ==
    /\ UNCHANGED << svcVars, dispVars, engVars, moreVars >>
    /\ r_pc \in { "returned", "raised" }
    /\ r_id < MaxRuns
    /\ r_pc' = "idle"
    /\ UNCHANGED << r_max, r_attempt, r_outs, r_sleeps, r_delay, r_slept, r_id,
                    r_stats, history >>

\* Another run (of another job, in another worker or process) starts while
\* this one is in progress: its add_run on the same history file, made as
\* one step.
OtherRunAdds ==
    /\ UNCHANGED << svcVars, dispVars, engVars, moreVars >>
    /\ r_pc \in { "loop", "sleep" }
    /\ history' = add_run(history, RunningRecord(0), MaxEntries)
    /\ UNCHANGED retryLocals

RetryInit ==
    /\ r_pc = "idle"
    /\ r_max = 0
    /\ r_attempt = 0
    /\ r_outs = << >>
    /\ r_sleeps = 0
    /\ r_delay = 0
    /\ r_slept = << >>
    /\ r_id = 0
    /\ r_stats = None
    /\ history = << >>

(***************************************************************************)
(* Configuration (config.py:26-84, 125-160, 200-284)                       *)
(***************************************************************************)
Names == { "a", "b" }

\* A part of a time string after split(':'): a numeric string, or not one.
Num(n) == [num |-> TRUE, val |-> n]
NaN == [num |-> FALSE, val |-> 0]

Schedule(type, time, hours, minutes, cron) ==
    [ type |-> type, time |-> time, day |-> None, hours |-> hours,
      minutes |-> minutes, cron |-> cron ]

JobConfig(name, command, enabled, schedule, timeout) ==
    [ name |-> name, command |-> command, enabled |-> enabled,
      schedule |-> schedule, timeout |-> timeout ]

\* The job definitions explored for each name.
\*   a: cron "0 2 * * *"
\*   b: daily "02:00" | interval minutes=1 | cron "0 2 * *" (four fields)
\*      | daily "2pm" | daily "25:00" | an empty command | timeout 0
CronA == Schedule("cron", None, None, None, Some(<< "0", "2", "*", "*", "*" >>))
DailyOk == Schedule("daily", Some(<< Num(2), Num(0) >>), None, None, None)
IntervalOk == Schedule("interval", None, None, Some(1), None)
CronFour == Schedule("cron", None, None, None, Some(<< "0", "2", "*", "*" >>))
DailyWord == Schedule("daily", Some(<< NaN >>), None, None, None)
DailyRange == Schedule("daily", Some(<< Num(25), Num(0) >>), None, None, None)

JobDefs(name, enabled) ==
    IF name = "a"
    THEN { JobConfig(name, "run", enabled, CronA, 3600) }
    ELSE { JobConfig(name, "run", enabled, DailyOk, 3600),
           JobConfig(name, "run", enabled, IntervalOk, 3600),
           JobConfig(name, "run", enabled, CronFour, 3600),
           JobConfig(name, "run", enabled, DailyWord, 3600),
           JobConfig(name, "run", enabled, DailyRange, 3600),
           JobConfig(name, "", enabled, DailyOk, 3600),
           JobConfig(name, "run", enabled, DailyOk, 0) }

\* The jobs of a configuration (a map name -> None | Some(job)).
JobsOf(cfg) == { cfg[n][1] : n \in { m \in Names : cfg[m] # None } }

\* not job.command or not job.command.strip()
IsBlank(command) == command \in { "", " " }

\* Python truthiness of an Optional[int] / Optional[str] field.
Truthy(x) == x # None /\ x[1] # 0

\* What validate() appends for one job (config.py:264-282).
JobErrors(job) ==
    LET sch == job.schedule
    IN  (IF IsBlank(job.command) THEN { "command" } ELSE { })
        \cup
        (CASE sch.type = "daily" /\ sch.time = None -> { "time" }
           [] sch.type = "weekly" /\ (sch.day = None \/ sch.time = None)
                -> { "day and time" }
           [] sch.type = "interval"
                /\ ~(Truthy(sch.hours) \/ Truthy(sch.minutes))
                -> { "hours or minutes" }
           [] sch.type = "cron" /\ sch.cron = None -> { "cron" }
           [] OTHER -> { })
        \cup
        (IF job.timeout <= 0 THEN { "timeout" } ELSE { })

\* SchedulerConfig.validate: the errors of all jobs, enabled or not.
validate(cfg) ==
    UNION { { << j.name, e >> : e \in JobErrors(j) } : j \in JobsOf(cfg) }

\* SchedulerConfig.get_enabled_jobs
get_enabled_jobs(cfg) == { j \in JobsOf(cfg) : j.enabled }

(***************************************************************************)
(* SchedulerService.add_job_from_config (service.py:272-367)               *)
(***************************************************************************)
\* int(time.split(':')[0]), int(time.split(':')[1]) and the range check of
\* the cron trigger that takes them (hour 0-23, minute 0-59).
TimeRaises(time) ==
    \/ time = None
    \/ Len(time[1]) < 2
    \/ ~time[1][1].num
    \/ ~time[1][2].num
    \/ time[1][1].val \notin 0..23
    \/ time[1][2].val \notin 0..59

\* _parse_cron_expression: exactly five fields, else ValueError.
CronRaises(cron) == cron = None \/ Len(cron[1]) # 5

\* Whether add_job_from_config raises for this job.
AddJobRaises(job) ==
    LET sch == job.schedule
    IN  CASE sch.type \in { "daily", "weekly" } -> TimeRaises(sch.time)
          [] sch.type = "cron" -> CronRaises(sch.cron)
          [] OTHER -> FALSE

\* load_jobs_from_config after validation: every enabled job is added; a
\* job whose add raises is logged and skipped (service.py:266-270).
LoadedJobs(cfg) ==
    { j.name : j \in { e \in get_enabled_jobs(cfg) : ~AddJobRaises(e) } }

(***************************************************************************)
(* Liveness registry (service.py:42-127)                                   *)
(***************************************************************************)
Procs == { 1, 2 }

\* _get_pid_file_path(): the environment's place when it names one, the
\* home directory's scheduler.pid otherwise.
SvcPidPath == IF envSet THEN "env" ELSE "home"

\* The path cmd_start writes: Path.home()/.earnings_data/scheduler.pid.
CliPidPath == "home"

PidPaths == { "home", "env" }

\* _is_process_running(pid): os.kill(pid, 0) succeeds.
is_process_running(pid) == alive[pid]

IsrNoProbe(files) ==
    LET f == files[SvcPidPath]
    IN  IF f = None
        THEN [running |-> FALSE, pid |-> None, files |-> files]
        ELSE [running |-> FALSE, pid |-> None,
              files |-> [files EXCEPT ![SvcPidPath] = None]]

\* is_scheduler_running(): (is_running, pid) and the PID files it leaves;
\* a PID file naming a dead process is unlinked.
is_scheduler_running(files) ==
    LET f == files[SvcPidPath]
    IN  IF f = None
        THEN [running |-> FALSE, pid |-> None, files |-> files]
        ELSE IF is_process_running(f[1])
             THEN [running |-> TRUE, pid |-> f, files |-> files]
             ELSE [running |-> FALSE, pid |-> None,
                   files |-> [files EXCEPT ![SvcPidPath] = None]]

\* The (is_running, pid) pair of a result, and whether the call unlinked
\* the PID file.
Ret(r, files) ==
    Some([running |-> r.running, pid |-> r.pid, unlinked |-> r.files # files])

\* _remove_pid_file on the PID files: unlink when it exists.
remove_pid(files) == [files EXCEPT ![SvcPidPath] = None]

(***************************************************************************)
(* A process running cmd_start (cli.py:84-128) around SchedulerService     *)
(* (service.py:138-252, 526-620)                                           *)
(***************************************************************************)
Op(p, name) == [proc |-> p, op |-> name]

\* The process is gone, and its memory with it.
ProcGone(p) ==
    /\ alive' = [alive EXCEPT ![p] = FALSE]
    /\ spc' = [spc EXCEPT ![p] = "off"]
    /\ mode' = [mode EXCEPT ![p] = "bg"]
    /\ running' = [running EXCEPT ![p] = FALSE]
    /\ atexitReg' = [atexitReg EXCEPT ![p] = FALSE]
    /\ everRan' = [everRan EXCEPT ![p] = FALSE]
    /\ svcCfg' = [svcCfg EXCEPT ![p] = [n \in Names |-> None]]
    /\ table' = [table EXCEPT ![p] = { }]
    /\ isr' = [isr EXCEPT ![p] = None]

\* `job-scheduler start [--foreground]`: the process comes up and builds
\* its SchedulerService, which reads the configuration file and installs
\* the signal handlers.
Spawn(p) ==
    /\ UNCHANGED << retryVars, dispVars, engVars, moreVars >>
    /\ ~alive[p]
    /\ \E m \in { "fg", "bg" } : mode' = [mode EXCEPT ![p] = m]
    /\ alive' = [alive EXCEPT ![p] = TRUE]
    /\ spc' = [spc EXCEPT ![p] = "new"]
    /\ running' = [running EXCEPT ![p] = FALSE]
    /\ atexitReg' = [atexitReg EXCEPT ![p] = FALSE]
    /\ everRan' = [everRan EXCEPT ![p] = FALSE]
    /\ svcCfg' = [svcCfg EXCEPT ![p] = cfgFile]
    /\ table' = [table EXCEPT ![p] = { }]
    /\ isr' = [isr EXCEPT ![p] = None]
    /\ last' = Op(p, "spawn")
    /\ UNCHANGED fileVars

\* start(), lines 528-534: the liveness check and the refusal.
StartCheck(p) ==
    /\ UNCHANGED << retryVars, dispVars, engVars, moreVars >>
    /\ spc[p] = "new"
    /\ LET r == is_scheduler_running(pidFile)
       IN  /\ pidFile' = r.files
           /\ isr' = [isr EXCEPT ![p] = Ret(r, pidFile)]
           /\ spc' = [spc EXCEPT ![p] = IF r.running THEN "refused" ELSE "load"]
    /\ last' = Op(p, "start_check")
    /\ UNCHANGED << alive, mode, running, atexitReg, everRan, svcCfg, table,
                    envSet, infoFile, cfgFile, jobStore >>

\* load_jobs_from_config: validation errors raise ValueError, which leaves
\* start(); cmd_start logs it and exits with status 1 (cli.py:126-128).
LoadJobs(p) ==
    /\ UNCHANGED << retryVars, dispVars, engVars, moreVars >>
    /\ spc[p] = "load"
    /\ IF validate(svcCfg[p]) # { }
       THEN ProcGone(p)
       ELSE /\ table' = [table EXCEPT ![p] = LoadedJobs(svcCfg[p])]
            /\ spc' = [spc EXCEPT ![p] = "sched"]
            /\ UNCHANGED << alive, mode, running, atexitReg, everRan, svcCfg,
                            isr >>
    /\ last' = Op(p, "load_jobs")
    /\ UNCHANGED fileVars

\* self.scheduler.start(): the pending jobs go to the job store (replacing
\* those of the same id), the jobs already stored stay, and the scheduler
\* dispatches all of them. BlockingScheduler.start() (foreground) runs the
\* main loop and returns only after shutdown; BackgroundScheduler.start()
\* returns at once.
SchedStart(p) ==
    /\ UNCHANGED << retryVars, dispVars, engVars, moreVars >>
    /\ spc[p] = "sched"
    /\ running' = [running EXCEPT ![p] = TRUE]
    /\ everRan' = [everRan EXCEPT ![p] = TRUE]
    /\ jobStore' = jobStore \cup table[p]
    /\ table' = [table EXCEPT ![p] = jobStore \cup table[p]]
    /\ spc' = [spc EXCEPT ![p] = IF mode[p] = "fg" THEN "blocked" ELSE "wpid"]
    /\ last' = Op(p, "sched_start")
    /\ UNCHANGED << alive, mode, atexitReg, svcCfg, isr, envSet, pidFile,
                    infoFile, cfgFile >>

\* _write_pid_file, lines 560-562: pid_file.write_text(str(os.getpid())).
WritePid(p) ==
    /\ UNCHANGED << retryVars, dispVars, engVars, moreVars >>
    /\ spc[p] = "wpid"
    /\ pidFile' = [pidFile EXCEPT ![SvcPidPath] = Some(p)]
    /\ spc' = [spc EXCEPT ![p] = "winfo"]
    /\ last' = Op(p, "write_pid")
    /\ UNCHANGED << alive, mode, running, atexitReg, everRan, svcCfg, table,
                    isr, envSet, infoFile, cfgFile, jobStore >>

\* _write_pid_file, line 579: open(info_file, 'w') truncates the file.
OpenInfo(p) ==
    /\ UNCHANGED << retryVars, dispVars, engVars, moreVars >>
    /\ spc[p] = "winfo"
    /\ infoFile' = Some([pid |-> p, complete |-> FALSE])
    /\ spc' = [spc EXCEPT ![p] = "wdump"]
    /\ last' = Op(p, "open_info")
    /\ UNCHANGED << alive, mode, running, atexitReg, everRan, svcCfg, table,
                    isr, envSet, pidFile, cfgFile, jobStore >>

\* _write_pid_file, lines 580-586: json.dump and close, atexit.register;
\* start() then logs the jobs and returns.
DumpInfo(p) ==
    /\ UNCHANGED << retryVars, dispVars, engVars, moreVars >>
    /\ spc[p] = "wdump"
    /\ infoFile' = Some([pid |-> p, complete |-> TRUE])
    /\ atexitReg' = [atexitReg EXCEPT ![p] = TRUE]
    /\ spc' = [spc EXCEPT ![p] = "ret"]
    /\ last' = Op(p, "dump_info")
    /\ UNCHANGED << alive, mode, running, everRan, svcCfg, table, isr,
                    envSet, pidFile, cfgFile, jobStore >>

\* cmd_start after start() has returned (cli.py:102-124): in foreground
\* mode the sleep loop; otherwise the PID is written to the home
\* directory's scheduler.pid and the process polls service.is_running().
AfterStart(p) ==
    /\ UNCHANGED << retryVars, dispVars, engVars, moreVars >>
    /\ spc[p] \in { "ret", "refused" }
    /\ IF mode[p] = "fg"
       THEN /\ spc' = [spc EXCEPT ![p] = "fgloop"]
            /\ pidFile' = pidFile
       ELSE /\ spc' = [spc EXCEPT ![p] = "bgloop"]
            /\ pidFile' = [pidFile EXCEPT ![CliPidPath] = Some(p)]
    /\ last' = Op(p, "after_start")
    /\ UNCHANGED << alive, mode, running, atexitReg, everRan, svcCfg, table,
                    isr, envSet, infoFile, cfgFile, jobStore >>

\* _remove_pid_file as the exit hook runs it, when it is registered.
AtExitFiles(p, files) == IF atexitReg[p] THEN remove_pid(files) ELSE files

AtExitInfo(p, info) == IF atexitReg[p] THEN None ELSE info

\* while service.is_running(): time.sleep(60) -- one evaluation of the
\* condition by a process whose own scheduler is not running; when it is
\* false cmd_start returns and the process is about to exit.
LoopCheck(p) ==
    /\ UNCHANGED << retryVars, dispVars, engVars, moreVars >>
    /\ spc[p] = "bgloop"
    /\ ~running[p]
    /\ LET r == is_scheduler_running(pidFile)
       IN  /\ isr' = [isr EXCEPT ![p] = Ret(r, pidFile)]
           /\ pidFile' = r.files
           /\ spc' = [spc EXCEPT ![p] = IF r.running THEN "bgloop" ELSE "leave"]
    /\ last' = Op(p, "loop_check")
    /\ UNCHANGED << alive, mode, running, atexitReg, everRan, svcCfg, table,
                    envSet, infoFile, cfgFile, jobStore >>

\* SIGINT or SIGTERM reaches the process: signal_handler runs.
Signal(p) ==
    /\ UNCHANGED << retryVars, dispVars, engVars, moreVars >>
    /\ alive[p]
    /\ spc[p] \notin { "h_stop", "h_rmpid", "h_rminfo", "stopret" }
    /\ spc' = [spc EXCEPT ![p] = "h_stop"]
    /\ last' = Op(p, "signal")
    /\ UNCHANGED << alive, mode, running, atexitReg, everRan, svcCfg, table,
                    isr, fileVars >>

\* stop(), lines 614-616 and 619-620: shutdown(wait) of a running
\* scheduler; "Scheduler is not running" otherwise.
StopShutdown(p) ==
    /\ UNCHANGED << retryVars, dispVars, engVars, moreVars >>
    /\ spc[p] = "h_stop"
    /\ IF running[p]
       THEN /\ running' = [running EXCEPT ![p] = FALSE]
            /\ spc' = [spc EXCEPT ![p] = "h_rmpid"]
       ELSE /\ running' = running
            /\ spc' = [spc EXCEPT ![p] = "stopret"]
    /\ last' = Op(p, "shutdown")
    /\ UNCHANGED << alive, mode, atexitReg, everRan, svcCfg, table, isr,
                    fileVars >>

\* _remove_pid_file, lines 593-598: the PID file.
RemovePid(p) ==
    /\ UNCHANGED << retryVars, dispVars, engVars, moreVars >>
    /\ spc[p] = "h_rmpid"
    /\ pidFile' = remove_pid(pidFile)
    /\ spc' = [spc EXCEPT ![p] = "h_rminfo"]
    /\ last' = Op(p, "remove_pid")
    /\ UNCHANGED << alive, mode, running, atexitReg, everRan, svcCfg, table,
                    isr, envSet, infoFile, cfgFile, jobStore >>

\* _remove_pid_file, lines 600-605: the info file; stop() returns.
RemoveInfo(p) ==
    /\ UNCHANGED << retryVars, dispVars, engVars, moreVars >>
    /\ spc[p] = "h_rminfo"
    /\ infoFile' = None
    /\ spc' = [spc EXCEPT ![p] = "stopret"]
    /\ last' = Op(p, "remove_info")
    /\ UNCHANGED << alive, mode, running, atexitReg, everRan, svcCfg, table,
                    isr, envSet, pidFile, cfgFile, jobStore >>

\* sys.exit(0) after stop() (service.py:249), or the return of cmd_start:
\* the exit hooks run and the process is gone.
Exit(p) ==
    /\ UNCHANGED << retryVars, dispVars, engVars, moreVars >>
    /\ spc[p] \in { "stopret", "leave" }
    /\ pidFile' = AtExitFiles(p, pidFile)
    /\ infoFile' = AtExitInfo(p, infoFile)
    /\ ProcGone(p)
    /\ last' = Op(p, "exit")
    /\ UNCHANGED << envSet, cfgFile, jobStore >>

\* The process is killed (SIGKILL, crash, power loss): no handler and no
\* exit hook runs, the files stay.
Kill(p) ==
    /\ UNCHANGED << retryVars, dispVars, engVars, moreVars >>
    /\ alive[p]
    /\ ProcGone(p)
    /\ last' = Op(p, "kill")
    /\ UNCHANGED fileVars

(***************************************************************************)
(* `job-scheduler stop` (cli.py:131-167), run to its end in one step: the  *)
(* process it signals either ends through its handler within the ten       *)
(* polls or is killed after them                                           *)
(***************************************************************************)
\* What signal_handler leaves when it runs to sys.exit(0): stop() removes
\* the files of a running scheduler, then the exit hooks run.
HandlerFiles(p, files) ==
    AtExitFiles(p, IF running[p] THEN remove_pid(files) ELSE files)

HandlerInfo(p, info) ==
    AtExitInfo(p, IF running[p] THEN None ELSE info)

\* pid_file.unlink() of cmd_stop; on a file that is gone already it raises
\* and cmd_stop ends with sys.exit(1), the files as they were.
cmd_stop_unlink(files) == [files EXCEPT ![CliPidPath] = None]

CmdStop ==
    /\ UNCHANGED << retryVars, dispVars, engVars, moreVars >>
    /\ LET f == pidFile[CliPidPath]
       IN  IF f = None \/ ~alive[f[1]]
           THEN \* no PID file: a warning; os.kill raises: sys.exit(1)
                /\ last' = Op(0, "cmd_stop")
                /\ UNCHANGED << procVars, fileVars >>
           ELSE LET pid == f[1]
                IN  /\ ProcGone(pid)
                    /\ last' = Op(pid, "cmd_stop")
                    /\ \/ /\ spc[pid] \notin { "h_stop", "h_rmpid", "h_rminfo",
                                               "stopret" }
                          /\ pidFile' = cmd_stop_unlink(HandlerFiles(pid, pidFile))
                          /\ infoFile' = HandlerInfo(pid, infoFile)
                       \/ \* SIGKILL after the polls
                          /\ pidFile' = cmd_stop_unlink(pidFile)
                          /\ infoFile' = infoFile
                    /\ UNCHANGED << envSet, cfgFile, jobStore >>

(***************************************************************************)
(* Job-management commands on the configuration file (cli.py:333-430)      *)
(***************************************************************************)
\* cmd_add: config.add_job (raises on a duplicate name) and config.save.
CmdAdd ==
    /\ UNCHANGED << retryVars, dispVars, engVars, moreVars >>
    /\ \E n \in Names : \E j \in JobDefs(n, TRUE) :
        /\ cfgFile[n] = None
        /\ cfgFile' = [cfgFile EXCEPT ![n] = Some(j)]
    /\ last' = Op(0, "cmd_add")
    /\ UNCHANGED << procVars, envSet, pidFile, infoFile, jobStore >>

\* cmd_remove: config.remove_job and config.save.
CmdRemove ==
    /\ UNCHANGED << retryVars, dispVars, engVars, moreVars >>
    /\ \E n \in Names :
        /\ cfgFile[n] # None
        /\ cfgFile' = [cfgFile EXCEPT ![n] = None]
    /\ last' = Op(0, "cmd_remove")
    /\ UNCHANGED << procVars, envSet, pidFile, infoFile, jobStore >>

\* cmd_enable / cmd_disable: config.update_job(enabled=...) and save.
CmdSetEnabled ==
    /\ UNCHANGED << retryVars, dispVars, engVars, moreVars >>
    /\ \E n \in Names : \E e \in BOOLEAN :
        /\ cfgFile[n] # None
        /\ cfgFile[n][1].enabled # e
        /\ cfgFile' = [cfgFile EXCEPT ![n] = Some([cfgFile[n][1] EXCEPT !.enabled = e])]
    /\ last' = Op(0, "cmd_set_enabled")
    /\ UNCHANGED << procVars, envSet, pidFile, infoFile, jobStore >>

\* No process, no PID or info file, an empty job store.
SvcIdle ==
    /\ alive = [p \in Procs |-> FALSE]
    /\ mode = [p \in Procs |-> "bg"]
    /\ spc = [p \in Procs |-> "off"]
    /\ running = [p \in Procs |-> FALSE]
    /\ atexitReg = [p \in Procs |-> FALSE]
    /\ everRan = [p \in Procs |-> FALSE]
    /\ svcCfg = [p \in Procs |-> [n \in Names |-> None]]
    /\ table = [p \in Procs |-> { }]
    /\ isr = [p \in Procs |-> None]
    /\ envSet = FALSE
    /\ pidFile = [f \in PidPaths |-> None]
    /\ infoFile = None
    /\ cfgFile = [n \in Names |-> None]
    /\ jobStore = { }
    /\ last = Op(0, "init")

\* The configurations a service of SpecSvc starts on.
ConfigA == [n \in Names |->
              IF n = "a" THEN Some(JobConfig("a", "run", TRUE, CronA, 3600))
              ELSE None]

ConfigBad == [n \in Names |->
                IF n = "a" THEN Some(JobConfig("a", "run", TRUE, CronA, 3600))
                ELSE Some(JobConfig("b", "", TRUE, DailyOk, 3600))]

SvcInit ==
    /\ alive = [p \in Procs |-> FALSE]
    /\ mode = [p \in Procs |-> "bg"]
    /\ spc = [p \in Procs |-> "off"]
    /\ running = [p \in Procs |-> FALSE]
    /\ atexitReg = [p \in Procs |-> FALSE]
    /\ everRan = [p \in Procs |-> FALSE]
    /\ svcCfg = [p \in Procs |-> [n \in Names |-> None]]
    /\ table = [p \in Procs |-> { }]
    /\ isr = [p \in Procs |-> None]
    /\ envSet \in BOOLEAN
    /\ pidFile = [f \in PidPaths |-> None]
    /\ infoFile = None
    /\ cfgFile \in { ConfigA, ConfigBad }
    /\ jobStore = { }
    /\ last = Op(0, "init")

(***************************************************************************)
(* The dispatch loop: the scheduler the service builds with its            *)
(* job_defaults (service.py:175-203) around execute_scheduled_command      *)
(* (jobs.py:513-541)                                                       *)
(***************************************************************************)
\* Recurring interval jobs and their intervals, in clock units.
DJobs == { "a", "b" }

\* The ids of one-shot jobs (add_one_time_job).
OJobs == { "o" }

AllJobs == DJobs \cup OJobs

Interval(j) == IF j = "a" THEN 1 ELSE 2

max_instances_two == 1 + 1

\* job_defaults['max_instances']
max_instances == 1

\* job_defaults['misfire_grace_time'] = 300 seconds, in clock units of
\* five minutes.
misfire_grace_time == 1

\* The executions of job j in flight: submitted and not yet over.
InFlight(j) == { e \in d_execs : e.job = j }

\* The fire times of j that are due at `now`, coalesced (coalesce: True):
\* the last of them.
CoalescedRunTime(j, now) ==
    d_next[j] + Interval(j) * ((now - d_next[j]) \div Interval(j))

\* The clock advances.
Tick ==
    /\ UNCHANGED << retryVars, svcVars, moreVars >>
    /\ d_now < MaxTime
    /\ d_now' = d_now + 1
    /\ UNCHANGED << d_next, d_inst, d_execs, d_skipped, engVars >>

\* The scheduler thread processes due job j: it submits one run to the
\* pool unless the job's instance limit is reached, in which case the run
\* is skipped; either way the next fire time is stored.
ProcessJob(j) ==
    /\ UNCHANGED << retryVars, svcVars, moreVars >>
    /\ d_state = "running"
    /\ d_next[j] <= d_now
    /\ LET run_time == CoalescedRunTime(j, d_now)
       IN  /\ IF d_inst[j] >= max_instances
              THEN /\ d_skipped' = [d_skipped EXCEPT ![j] = @ + 1]
                   /\ UNCHANGED << d_inst, d_execs >>
              ELSE /\ d_execs' = d_execs \cup
                          { [job |-> j, run_time |-> run_time, st |-> "queued"] }
                   /\ d_inst' = [d_inst EXCEPT ![j] = @ + 1]
                   /\ UNCHANGED d_skipped
           /\ d_next' = [d_next EXCEPT ![j] = run_time + Interval(j)]
    /\ UNCHANGED << d_now, engVars >>

PoolAlwaysFree(nrunning) == TRUE

\* ThreadPoolExecutor(max_workers): a worker thread is free.
PoolHasFreeWorker(nrunning) == nrunning < Workers

\* A free pool worker takes a queued run: a run that is later than the
\* grace time is dropped as missed, otherwise execute_scheduled_command is
\* called.
WorkerStart ==
    /\ UNCHANGED << retryVars, svcVars, moreVars >>
    /\ PoolHasFreeWorker(Cardinality({ e \in d_execs : e.st = "running" }))
    /\ \E e \in d_execs :
        /\ e.st = "queued"
        /\ IF d_now - e.run_time > misfire_grace_time
           THEN /\ d_execs' = d_execs \ { e }
                /\ d_inst' = [d_inst EXCEPT ![e.job] = @ - 1]
                /\ d_missed' = [d_missed EXCEPT ![e.job] = @ + 1]
                /\ UNCHANGED d_runs
           ELSE /\ d_execs' = (d_execs \ { e }) \cup { [e EXCEPT !.st = "running"] }
                /\ d_runs' = [d_runs EXCEPT ![e.job] = @ + 1]
                /\ UNCHANGED << d_inst, d_missed >>
    /\ UNCHANGED << d_now, d_next, d_skipped >>
    /\ UNCHANGED << d_state, d_stop, d_info, d_once, d_pending, d_outcome,
                    d_since >>

StateAfterRunErrorStops(state, raised) ==
    IF raised THEN "stopped" ELSE state

\* What the end of a run does to the scheduler's state: the listeners for
\* EVENT_JOB_EXECUTED and EVENT_JOB_ERROR write a log line and nothing else.
StateAfterRun(state, raised) == state

\* execute_scheduled_command (execute_with_retry, retry sleeps included)
\* returns its stats or raises JobExecutionError (a non-zero exit, a
\* timeout, retries exhausted): the run is over, its instance is released
\* and the listener of the event is called.
WorkerFinish ==
    /\ UNCHANGED << retryVars, svcVars, moreVars >>
    /\ \E e \in d_execs : \E raised \in BOOLEAN :
        /\ e.st = "running"
        /\ d_execs' = d_execs \ { e }
        /\ d_inst' = [d_inst EXCEPT ![e.job] = @ - 1]
        /\ d_outcome' = Some([job |-> e.job, raised |-> raised])
        /\ d_state' = StateAfterRun(d_state, raised)
    /\ UNCHANGED << d_now, d_next, d_skipped >>
    /\ UNCHANGED << d_stop, d_info, d_once, d_pending, d_runs, d_missed,
                    d_since >>

\* The scheduler has just started: every job fires one interval from now.
DispInit ==
    /\ d_now = 0
    /\ d_next = [j \in DJobs |-> Interval(j)]
    /\ d_inst = [j \in AllJobs |-> 0]
    /\ d_execs = { }
    /\ d_skipped = [j \in AllJobs |-> 0]
    /\ d_state = "running"
    /\ d_stop = "idle"
    /\ d_info = TRUE
    /\ d_once = [o \in OJobs |-> None]
    /\ d_pending = [o \in OJobs |-> None]
    /\ d_runs = [j \in AllJobs |-> 0]
    /\ d_missed = [j \in AllJobs |-> 0]
    /\ d_outcome = None
    /\ d_since = 0

(***************************************************************************)
(* The engine around the dispatch loop: one-shot jobs                      *)
(* (service.py:369-422), stop (service.py:607-620) and restart             *)
(* (service.py:526-553)                                                    *)
(***************************************************************************)
DateNextFireTimeRepeats(previous_fire_time, run_date) == Some(run_date)

\* The 'date' trigger of add_one_time_job: it fires once, at run_date.
DateNextFireTime(previous_fire_time, run_date) ==
    IF previous_fire_time = None THEN Some(run_date) ELSE None

ShutdownNoWait(execs) == TRUE

\* stop(wait=True): scheduler.shutdown(wait=True) returns when the pool has
\* run every execution submitted to it.
ShutdownMayReturn(execs) == execs = { }

\* add_one_time_job(command, run_at) with a fresh job id: the job goes to
\* the job store of a running scheduler, or to the pending list of one
\* that has not been started (run_at None is run_date = now).
AddOneShot(o, run_at) ==
    /\ UNCHANGED << retryVars, svcVars, moreVars >>
    /\ d_stop \in { "idle", "returned", "dead" }
    /\ d_once[o] = None /\ d_pending[o] = None
    /\ InFlight(o) = { }
    /\ d_runs[o] = 0 /\ d_missed[o] = 0
    /\ IF d_state = "running"
       THEN /\ d_once' = [d_once EXCEPT ![o] = DateNextFireTime(None, run_at)]
            /\ UNCHANGED d_pending
       ELSE /\ d_pending' = [d_pending EXCEPT ![o] = Some(run_at)]
            /\ UNCHANGED d_once
    /\ UNCHANGED << dispVars, d_state, d_stop, d_info, d_runs, d_missed, d_outcome,
                    d_since >>

\* The scheduler thread processes due one-shot job o: it submits the run
\* and, the trigger having no next fire time, removes the job from the job
\* store.
ProcessOnce(o) ==
    /\ UNCHANGED << retryVars, svcVars, moreVars >>
    /\ d_state = "running"
    /\ d_once[o] # None
    /\ d_once[o][1] <= d_now
    /\ LET run_time == d_once[o][1]
       IN  /\ IF d_inst[o] >= max_instances
              THEN /\ d_skipped' = [d_skipped EXCEPT ![o] = @ + 1]
                   /\ UNCHANGED << d_inst, d_execs >>
              ELSE /\ d_execs' = d_execs \cup
                          { [job |-> o, run_time |-> run_time, st |-> "queued"] }
                   /\ d_inst' = [d_inst EXCEPT ![o] = @ + 1]
                   /\ UNCHANGED d_skipped
           /\ d_once' = [d_once EXCEPT ![o] = DateNextFireTime(Some(run_time), run_time)]
    /\ UNCHANGED << d_now, d_next >>
    /\ UNCHANGED << d_state, d_stop, d_info, d_pending, d_runs, d_missed, d_outcome,
                    d_since >>

\* stop() on a running scheduler enters scheduler.shutdown(wait=True): the
\* state becomes STATE_STOPPED and nothing is submitted any more.
StopCall ==
    /\ UNCHANGED << retryVars, svcVars, moreVars >>
    /\ d_state = "running"
    /\ d_stop = "idle"
    /\ d_state' = "stopped"
    /\ d_stop' = "shutdown"
    /\ UNCHANGED << dispVars, d_info, d_once, d_pending, d_runs, d_missed, d_outcome,
                    d_since >>

\* scheduler.shutdown(wait=True) returns.
ShutdownReturns ==
    /\ UNCHANGED << retryVars, svcVars, moreVars >>
    /\ d_stop = "shutdown"
    /\ ShutdownMayReturn(d_execs)
    /\ d_stop' = "remove"
    /\ UNCHANGED << dispVars, d_state, d_info, d_once, d_pending, d_runs, d_missed, d_outcome,
                    d_since >>

\* stop() calls _remove_pid_file() and returns.
StopRemoveFiles ==
    /\ UNCHANGED << retryVars, svcVars, moreVars >>
    /\ d_stop = "remove"
    /\ d_info' = FALSE
    /\ d_stop' = "returned"
    /\ UNCHANGED << dispVars, d_state, d_once, d_pending, d_runs, d_missed, d_outcome,
                    d_since >>

\* The process of the engine is killed: its threads and its pending list
\* are gone, the job store and the files stay as they are.
EngineKill ==
    /\ UNCHANGED << retryVars, svcVars, moreVars >>
    /\ d_stop \in { "idle", "shutdown", "remove" }
    /\ d_state' = "stopped"
    /\ d_stop' = "dead"
    /\ d_execs' = { }
    /\ d_inst' = [j \in AllJobs |-> 0]
    /\ d_pending' = [o \in OJobs |-> None]
    /\ UNCHANGED << d_now, d_next, d_skipped, d_info, d_once, d_runs, d_missed, d_outcome,
                    d_since >>

\* start() in a new process: every job of the configuration is added with
\* replace_existing, which stores a next run time computed from now; the
\* pending one-shot jobs go to the job store; the files are published.
EngineStart ==
    /\ UNCHANGED << retryVars, svcVars, moreVars >>
    /\ d_stop \in { "returned", "dead" }
    /\ d_state' = "running"
    /\ d_stop' = "idle"
    /\ d_info' = TRUE
    /\ d_next' = [j \in DJobs |-> d_now + Interval(j)]
    /\ d_once' = [o \in OJobs |->
                    IF d_pending[o] # None THEN d_pending[o] ELSE d_once[o]]
    /\ d_pending' = [o \in OJobs |-> None]
    /\ d_since' = d_now
    /\ UNCHANGED << d_now, d_inst, d_execs, d_skipped, d_runs, d_missed,
                    d_outcome >>

(***************************************************************************)
(* Interval jobs: the 'interval' trigger that add_job_from_config builds   *)
(* (service.py:314-332), times in seconds                                  *)
(***************************************************************************)
interval_kwargs_elif(schedule) ==
    IF Truthy(schedule.hours)
    THEN [hours |-> schedule.hours[1], minutes |-> 0]
    ELSE [hours |-> 0,
          minutes |-> IF Truthy(schedule.minutes) THEN schedule.minutes[1] ELSE 0]

\* interval_kwargs: hours and minutes are passed on when they are truthy,
\* and are 0 in the trigger otherwise.
interval_kwargs(schedule) ==
    [ hours |-> IF Truthy(schedule.hours) THEN schedule.hours[1] ELSE 0,
      minutes |-> IF Truthy(schedule.minutes) THEN schedule.minutes[1] ELSE 0 ]

\* The length of the trigger's timedelta(hours=..., minutes=...).
interval_length(schedule) ==
    interval_kwargs(schedule).hours * 3600 + interval_kwargs(schedule).minutes * 60

\* The interval schedules explored: those validate() accepts, with no
\* negative part.
IntervalSchedules ==
    { sch \in { Schedule("interval", None, h, m, None) :
                    h \in { None, Some(0), Some(1), Some(2) },
                    m \in { None, Some(0), Some(1), Some(30) } } :
        Truthy(sch.hours) \/ Truthy(sch.minutes) }

\* The trigger's next fire time after a fire time.
IntervalNextFireTime(schedule, previous_fire_time) ==
    previous_fire_time + interval_length(schedule)

\* The job's fire times from next_run_time up to now.
RECURSIVE GetRunTimes(_, _, _)
GetRunTimes(schedule, run_time, now) ==
    IF run_time > now THEN << >>
    ELSE << run_time >> \o
         GetRunTimes(schedule, IntervalNextFireTime(schedule, run_time), now)

\* How late the scheduler thread may look at the job: on time, one second
\* late, a whole interval late.
Lateness(schedule) == { 0, 1, interval_length(schedule) }

\* The scheduler thread wakes up when the job is due, or later.
IntervalWake ==
    /\ UNCHANGED << coreVars, dailyVars, histVars, storeVars, execVars, pubVars,
       stopVars, valVars, obsVars, onceVars >>
    /\ Len(i_fired) < MaxFires
    /\ \E late \in Lateness(i_sched) :
        /\ i_now < i_next + late
        /\ i_now' = i_next + late
    /\ UNCHANGED << i_sched, i_next, i_fired, i_run >>

\* The scheduler thread processes the due job: its fire times up to now
\* are coalesced into one run, which is submitted unless the run of an
\* earlier fire time is still in flight, and the next fire time is stored.
IntervalProcess ==
    /\ UNCHANGED << coreVars, dailyVars, histVars, storeVars, execVars, pubVars,
       stopVars, valVars, obsVars, onceVars >>
    /\ i_next <= i_now
    /\ LET run_times == GetRunTimes(i_sched, i_next, i_now)
           last_time == run_times[Len(run_times)]
       IN  /\ i_fired' = i_fired \o run_times
           /\ i_run' = IF i_run = None THEN Some(last_time) ELSE i_run
           /\ i_next' = IntervalNextFireTime(i_sched, last_time)
    /\ UNCHANGED << i_sched, i_now >>

\* The run in flight ends, however long it took.
IntervalRunEnds ==
    /\ UNCHANGED << coreVars, dailyVars, histVars, storeVars, execVars, pubVars,
       stopVars, valVars, obsVars, onceVars >>
    /\ i_run # None
    /\ i_run' = None
    /\ UNCHANGED << i_sched, i_now, i_next, i_fired >>

\* The job has just been added at time 0: the trigger's start_date, and
\* first fire time, is one interval later.
IntervalIdle ==
    /\ i_sched = Schedule("interval", None, None, Some(1), None)
    /\ i_now = 0
    /\ i_next = interval_length(i_sched)
    /\ i_fired = << >>
    /\ i_run = None

IntervalInit ==
    /\ i_sched \in IntervalSchedules
    /\ i_now = 0
    /\ i_next = interval_length(i_sched)
    /\ i_fired = << >>
    /\ i_run = None

(***************************************************************************)
(* Daily jobs: the 'cron' trigger with hour and minute that                *)
(* add_job_from_config builds (service.py:291-300). An instant is a        *)
(* number; each minute has two: its exact start and any later time in it.  *)
(***************************************************************************)
MinuteInstants == 2

DayInstants == DayHours * HourMinutes * MinuteInstants

DailyFieldsSwapped(time) == [hour |-> time[2].val, minute |-> time[1].val]

\* hour=int(time.split(':')[0]), minute=int(time.split(':')[1])
DailyFields(time) == [hour |-> time[1].val, minute |-> time[2].val]

\* The daily schedules explored: every HH:MM of the day.
DailySchedules ==
    { Schedule("daily", Some(<< Num(h), Num(m) >>), None, None, None) :
        h \in 0..(DayHours - 1), m \in 0..(HourMinutes - 1) }

\* The instant of the day at which the trigger's fields match: the exact
\* start of minute `minute` of hour `hour` (second 0).
FieldsInstant(fields) == (fields.hour * HourMinutes + fields.minute) * MinuteInstants

\* The first instant at or after `start` that matches the fields.
FirstMatch(fields, start) ==
    LET day == start \div DayInstants
        today == day * DayInstants + FieldsInstant(fields)
    IN  IF start <= today THEN today ELSE today + DayInstants

\* The trigger's get_next_fire_time(previous_fire_time, now): the search
\* starts at now when the job has not fired, and just after the previous
\* fire time (or at now, if that is earlier) when it has.
CronNextFireTime(fields, previous_fire_time, now) ==
    LET start ==
          IF previous_fire_time = None THEN now
          ELSE LET after == previous_fire_time[1] + 1
                   s0 == IF now < after THEN now ELSE after
               IN  IF s0 = previous_fire_time[1] THEN s0 + 1 ELSE s0
    IN  FirstMatch(fields, start)

\* The last fire time of the job up to now, from its next_run_time on.
RECURSIVE CronLastRunTime(_, _, _)
CronLastRunTime(fields, run_time, now) ==
    LET n == CronNextFireTime(fields, Some(run_time), now)
    IN  IF n > now THEN run_time ELSE CronLastRunTime(fields, n, now)

\* The job is added to the scheduler at instant c_now.
DailyAdd ==
    /\ UNCHANGED << coreVars, intervalVars, histVars, storeVars, execVars, pubVars,
       stopVars, valVars, obsVars, onceVars >>
    /\ c_next = None
    /\ c_next' = Some(CronNextFireTime(DailyFields(c_sched.time[1]), None, c_now))
    /\ c_at' = c_now
    /\ c_prev' = None
    /\ UNCHANGED << c_sched, c_now >>

\* Time passes.
DailyTick ==
    /\ UNCHANGED << coreVars, intervalVars, histVars, storeVars, execVars, pubVars,
       stopVars, valVars, obsVars, onceVars >>
    /\ c_now + 1 < MaxDays * DayInstants
    /\ c_now' = c_now + 1
    /\ UNCHANGED << c_sched, c_next, c_at, c_prev >>

\* The scheduler thread processes the due job and stores the next fire
\* time after the last one that was due.
DailyProcess ==
    /\ UNCHANGED << coreVars, intervalVars, histVars, storeVars, execVars, pubVars,
       stopVars, valVars, obsVars, onceVars >>
    /\ c_next # None
    /\ c_next[1] <= c_now
    /\ LET fields == DailyFields(c_sched.time[1])
           run_time == CronLastRunTime(fields, c_next[1], c_now)
       IN  /\ c_next' = Some(CronNextFireTime(fields, Some(run_time), c_now))
           /\ c_prev' = Some(run_time)
    /\ c_at' = c_now
    /\ UNCHANGED << c_sched, c_now >>

\* No daily job.
DailyIdle ==
    /\ c_sched = Schedule("daily", Some(<< Num(0), Num(0) >>), None, None, None)
    /\ c_now = 0
    /\ c_next = None
    /\ c_at = 0
    /\ c_prev = None

\* A daily job about to be added at some instant of day 0.
DailyInit ==
    /\ c_sched \in DailySchedules
    /\ c_now \in 0..(DayInstants - 1)
    /\ c_next = None
    /\ c_at = 0
    /\ c_prev = None

(***************************************************************************)
(* Writers of the history file (jobs.py:71-113): pool workers of the       *)
(* scheduler and cmd_run_once (cli.py:469-518)                             *)
(***************************************************************************)
Writers == { 1, 2 }

\* _read_history: the list in the file; an empty or half-written file does
\* not parse and is read as the empty list.
read_history == IF h_trunc THEN << >> ELSE history

\* What a finished run writes with update_run.
FinalUpdates ==
    [ end_time |-> Some("t"), elapsed_seconds |-> Some("d"),
      status |-> "success", exit_code |-> Some(0) ]

\* What a run that failed writes with update_run.
FailedUpdates ==
    [ end_time |-> Some("t"), elapsed_seconds |-> Some("d"),
      status |-> "failed", error |-> Some("error") ]

\* add_run called, one call after the other: read, append, trim, write.
HistAdd ==
    /\ UNCHANGED << svcVars, dispVars, engVars, intervalVars, dailyVars, storeVars, execVars, pubVars,
       stopVars, valVars, obsVars, onceVars >>
    /\ Len(h_all) < MaxAdds
    /\ \A w \in Writers : h_pc[w] = "start"
    /\ history' = add_run(read_history, RunningRecord(Len(h_all) + 1), h_max)
    /\ h_all' = Append(h_all, Len(h_all) + 1)
    /\ UNCHANGED << retryLocals, h_max, h_pc, h_local, h_trunc >>

\* update_run called between them: read, update the first match, write.
HistUpdate ==
    /\ UNCHANGED << svcVars, dispVars, engVars, intervalVars, dailyVars, storeVars, execVars, pubVars,
       stopVars, valVars, obsVars, onceVars >>
    /\ \A w \in Writers : h_pc[w] = "start"
    /\ \E run_id \in 1..Len(h_all) : \E updates \in { FinalUpdates, FailedUpdates } :
        history' = update_run(read_history, run_id, updates)
    /\ UNCHANGED << retryLocals, h_max, h_all, h_pc, h_local, h_trunc >>

\* Writer w in add_run: history = self._read_history(); append; trim.
HAddRead(w) ==
    /\ UNCHANGED << svcVars, dispVars, engVars, intervalVars, dailyVars, storeVars, execVars, pubVars,
       stopVars, valVars, obsVars, onceVars >>
    /\ h_pc[w] = "start"
    /\ h_local' = [h_local EXCEPT ![w] = add_run(read_history, RunningRecord(w), h_max)]
    /\ h_pc' = [h_pc EXCEPT ![w] = "add_open"]
    /\ UNCHANGED << retryLocals, history, h_max, h_all, h_trunc >>

\* Writer w in update_run: history = self._read_history(); update.
HUpdRead(w) ==
    /\ UNCHANGED << svcVars, dispVars, engVars, intervalVars, dailyVars, storeVars, execVars, pubVars,
       stopVars, valVars, obsVars, onceVars >>
    /\ h_pc[w] = "added"
    /\ h_local' = [h_local EXCEPT ![w] = update_run(read_history, w, FinalUpdates)]
    /\ h_pc' = [h_pc EXCEPT ![w] = "upd_open"]
    /\ UNCHANGED << retryLocals, history, h_max, h_all, h_trunc >>

\* Writer w in _write_history: open(self.history_file, 'w') empties the
\* file.
HOpen(w) ==
    /\ UNCHANGED << svcVars, dispVars, engVars, intervalVars, dailyVars, storeVars, execVars, pubVars,
       stopVars, valVars, obsVars, onceVars >>
    /\ h_pc[w] \in { "add_open", "upd_open" }
    /\ h_trunc' = TRUE
    /\ h_pc' = [h_pc EXCEPT ![w] = IF @ = "add_open" THEN "add_dump" ELSE "upd_dump"]
    /\ UNCHANGED << retryLocals, history, h_max, h_all, h_local >>

\* Writer w in _write_history: json.dump writes its list; the call is over.
HDump(w) ==
    /\ UNCHANGED << svcVars, dispVars, engVars, intervalVars, dailyVars, storeVars, execVars, pubVars,
       stopVars, valVars, obsVars, onceVars >>
    /\ h_pc[w] \in { "add_dump", "upd_dump" }
    /\ history' = h_local[w]
    /\ h_trunc' = FALSE
    /\ h_pc' = [h_pc EXCEPT ![w] = IF @ = "add_dump" THEN "added" ELSE "done"]
    /\ UNCHANGED << retryLocals, h_max, h_all, h_local >>

\* No writer at work, max_entries at its default.
HistIdle ==
    /\ h_max = 1000
    /\ h_all = << >>
    /\ h_pc = [w \in Writers |-> "start"]
    /\ h_local = [w \in Writers |-> << >>]
    /\ h_trunc = FALSE

\* One writer, making its calls one after the other, with a small
\* max_entries.
HistSeqInit ==
    /\ h_max \in 1..(MaxEntries + 1)
    /\ h_all = << >>
    /\ h_pc = [w \in Writers |-> "start"]
    /\ h_local = [w \in Writers |-> << >>]
    /\ h_trunc = FALSE

(***************************************************************************)
(* The job list of a SchedulerConfig and its file (config.py:125-253)      *)
(***************************************************************************)
\* A job of the list, as far as the list operations look at it.
StoreJob(name, enabled) == [name |-> name, enabled |-> enabled]

\* The lists a configuration file can hold: load() takes every entry of
\* 'schedules' as it comes.
RECURSIVE JobLists(_)
JobLists(n) ==
    IF n = 0 THEN { << >> }
    ELSE JobLists(n - 1) \cup
         { Append(l, StoreJob(name, enabled)) :
             l \in { x \in JobLists(n - 1) : Len(x) = n - 1 },
             name \in Names, enabled \in BOOLEAN }

\* get_job: the index of the first job with the name (0: None).
get_job(jobs, name) ==
    IF \E i \in 1..Len(jobs) : jobs[i].name = name
    THEN CHOOSE i \in 1..Len(jobs) :
            /\ jobs[i].name = name
            /\ \A k \in 1..(i - 1) : jobs[k].name # name
    ELSE 0

\* The keyword arguments of update_job explored: a new enabled flag or a
\* new name (setattr for every key the job has).
UpdateKwargs ==
    { [enabled |-> e] : e \in BOOLEAN } \cup { [name |-> n] : n \in Names }

\* A call on the SchedulerConfig, as the claims identify it.
Call(op, name, arg) == [op |-> op, name |-> name, arg |-> arg]

\* load(): self.jobs becomes the list of the file.
StoreLoad ==
    /\ UNCHANGED << coreVars, intervalVars, dailyVars, histVars, execVars, pubVars,
       stopVars, valVars, obsVars, onceVars >>
    /\ s_jobs' = s_file
    /\ s_ret' = "ok"
    /\ s_call' = Call("load", "", None)
    /\ UNCHANGED s_table
    /\ UNCHANGED s_file

add_job_unchecked(jobs, job) ==
    [jobs |-> Append(jobs, job), ret |-> "ok"]

\* add_job(job): ValueError when a job of the list has the name, else the
\* job is appended.
add_job(jobs, job) ==
    IF \E i \in 1..Len(jobs) : jobs[i].name = job.name
    THEN [jobs |-> jobs, ret |-> "raised"]
    ELSE [jobs |-> Append(jobs, job), ret |-> "ok"]

\* A call of add_job.
StoreAdd(name, enabled) ==
    /\ UNCHANGED << coreVars, intervalVars, dailyVars, histVars, execVars, pubVars,
       stopVars, valVars, obsVars, onceVars >>
    /\ Len(s_jobs) < MaxJobs
    /\ s_jobs' = add_job(s_jobs, StoreJob(name, enabled)).jobs
    /\ s_ret' = add_job(s_jobs, StoreJob(name, enabled)).ret
    /\ s_call' = Call("add_job", name, Some(StoreJob(name, enabled)))
    /\ UNCHANGED s_table
    /\ UNCHANGED s_file

remove_job_first_only(jobs, name) ==
    LET i == get_job(jobs, name)
    IN  IF i = 0 THEN [jobs |-> jobs, ret |-> "false"]
        ELSE [jobs |-> SubSeq(jobs, 1, i - 1) \o SubSeq(jobs, i + 1, Len(jobs)),
              ret |-> "true"]

\* remove_job(name): the jobs with another name stay; True when the list
\* got shorter.
remove_job(jobs, name) ==
    LET Keep(j) == j.name # name
        kept == SelectSeq(jobs, Keep)
    IN  [jobs |-> kept,
         ret |-> IF Len(kept) < Len(jobs) THEN "true" ELSE "false"]

\* A call of remove_job.
StoreRemove(name) ==
    /\ UNCHANGED << coreVars, intervalVars, dailyVars, histVars, execVars, pubVars,
       stopVars, valVars, obsVars, onceVars >>
    /\ s_jobs' = remove_job(s_jobs, name).jobs
    /\ s_ret' = remove_job(s_jobs, name).ret
    /\ s_call' = Call("remove_job", name, None)
    /\ UNCHANGED s_table
    /\ UNCHANGED s_file

\* update_job(name, **kwargs): ValueError when get_job finds no job; else
\* the attributes named are set on the job found.
update_job(jobs, name, kwargs) ==
    LET i == get_job(jobs, name)
    IN  IF i = 0
        THEN [jobs |-> jobs, ret |-> "raised"]
        ELSE [jobs |-> [jobs EXCEPT ![i] = RecordUpdate(@, kwargs)],
              ret |-> "ok"]

\* A call of update_job.
StoreUpdate(name, kwargs) ==
    /\ UNCHANGED << coreVars, intervalVars, dailyVars, histVars, execVars, pubVars,
       stopVars, valVars, obsVars, onceVars >>
    /\ s_jobs' = update_job(s_jobs, name, kwargs).jobs
    /\ s_ret' = update_job(s_jobs, name, kwargs).ret
    /\ s_call' = Call("update_job", name, Some(kwargs))
    /\ UNCHANGED s_table
    /\ UNCHANGED s_file

\* A call of enable_job(name) or disable_job(name).
StoreSetEnabled(name, enabled) ==
    /\ UNCHANGED << coreVars, intervalVars, dailyVars, histVars, execVars, pubVars,
       stopVars, valVars, obsVars, onceVars >>
    /\ s_jobs' = update_job(s_jobs, name, [enabled |-> enabled]).jobs
    /\ s_ret' = update_job(s_jobs, name, [enabled |-> enabled]).ret
    /\ s_call' = Call(IF enabled THEN "enable_job" ELSE "disable_job", name,
                      None)
    /\ UNCHANGED s_table
    /\ UNCHANGED s_file

\* save(): the file holds the list.
StoreSave ==
    /\ UNCHANGED << coreVars, intervalVars, dailyVars, histVars, execVars, pubVars,
       stopVars, valVars, obsVars, onceVars >>
    /\ s_file' = s_jobs
    /\ s_ret' = "ok"
    /\ s_call' = Call("save", "", None)
    /\ UNCHANGED s_table
    /\ UNCHANGED s_jobs

\* add_job_from_config(job_config) for a job of the list: the scheduler
\* holds a job of that id afterwards (replace_existing=True).
SvcAddJob(name) ==
    /\ UNCHANGED << coreVars, intervalVars, dailyVars, histVars, execVars, pubVars,
       stopVars, valVars, obsVars, onceVars >>
    /\ get_job(s_jobs, name) # 0
    /\ s_table' = s_table \cup { name }
    /\ s_ret' = "ok"
    /\ s_call' = Call("add_job_from_config", name, None)
    /\ UNCHANGED << s_jobs, s_file >>

\* scheduler.remove_job(job_id) of the library: JobLookupError when the
\* scheduler holds no job of that id.
scheduler_remove_job(ids, job_id) ==
    IF job_id \in ids
    THEN [ids |-> ids \ { job_id }, raised |-> FALSE]
    ELSE [ids |-> ids, raised |-> TRUE]

\* SchedulerService.remove_job(job_id): True, or False when the scheduler
\* raised.
service_remove_job(ids, job_id) ==
    LET r == scheduler_remove_job(ids, job_id)
    IN  [ids |-> r.ids, ret |-> IF r.raised THEN "false" ELSE "true"]

\* A call of SchedulerService.remove_job.
SvcRemoveJob(name) ==
    /\ UNCHANGED << coreVars, intervalVars, dailyVars, histVars, execVars, pubVars,
       stopVars, valVars, obsVars, onceVars >>
    /\ s_table' = service_remove_job(s_table, name).ids
    /\ s_ret' = service_remove_job(s_table, name).ret
    /\ s_call' = Call("service.remove_job", name, None)
    /\ UNCHANGED << s_jobs, s_file >>

\* No SchedulerConfig at work.
StoreIdle ==
    /\ s_jobs = << >>
    /\ s_file = << >>
    /\ s_ret = "ok"
    /\ s_call = Call("init", "", None)
    /\ s_table = { }

\* A SchedulerConfig about to load a configuration file.
StoreInit ==
    /\ s_jobs = << >>
    /\ s_file \in JobLists(2)
    /\ s_ret = "ok"
    /\ s_call = Call("init", "", None)
    /\ s_table = { }

(***************************************************************************)
(* One call of CommandExecutor.execute_command, step by step               *)
(* (jobs.py:246-352), and the subprocess it starts                         *)
(***************************************************************************)
\* An exception: its type, what its message says, the exit code it names.
Exc(type, msg, code) == [type |-> type, msg |-> msg, code |-> code]

\* The except clauses of execute_command (jobs.py:343-352): TimeoutExpired
\* and every other Exception leave as JobExecutionError.
ExceptClauses(e) ==
    CASE e.type = "TimeoutExpired" -> Exc("JobExecutionError", "timed out", None)
      [] e.type = "JobExecutionError" -> e
      [] OTHER -> Exc("JobExecutionError", "execution failed", None)

\* if process.returncode != 0: raise JobExecutionError(...) / return {...}
\* (jobs.py:270-279, 332-341)
CheckReturncode(returncode) ==
    IF returncode # 0
    THEN [pc |-> "raised",
          exc |-> Some(ExceptClauses(Exc("JobExecutionError", "exit code",
                                         Some(returncode)))),
          result |-> None]
    ELSE [pc |-> "returned", exc |-> None,
          result |-> Some([returncode |-> returncode])]

\* subprocess.Popen(command, shell=True, ...): the shell is started with the
\* pipe as its stdout, or Popen raises (a working directory that does not
\* exist). Stream mode goes on to read stdout, logged mode starts the two
\* reader threads and calls process.wait(timeout) at once.
Popen ==
    /\ UNCHANGED << baseVars, pubVars, stopVars, valVars, obsVars, onceVars >>
    /\ x_pc = "idle"
    /\ x_shell = "none"
    /\ \/ /\ x_pc' = "raised"
          /\ x_exc' = Some(ExceptClauses(Exc("OSError", "spawn", None)))
          /\ UNCHANGED << x_shell, x_out >>
       \/ /\ x_shell' = "running"
          /\ x_out' = TRUE
          /\ x_pc' = IF x_stream THEN "read" ELSE "wait"
          /\ UNCHANGED x_exc
    /\ UNCHANGED << x_stream, x_timeout, x_clock, x_wait_at, x_code,
                    x_exit_at, x_kids, x_result >>

\* Stream mode: `for line in process.stdout` ends when the pipe is at end of
\* file, that is when no process holds its write end; then
\* process.wait(timeout=timeout) is called.
ReadStdout ==
    /\ UNCHANGED << baseVars, pubVars, stopVars, valVars, obsVars, onceVars >>
    /\ x_pc = "read"
    /\ ~x_out
    /\ x_pc' = "wait"
    /\ x_wait_at' = x_clock
    /\ UNCHANGED << x_stream, x_timeout, x_clock, x_shell, x_code, x_exit_at,
                    x_out, x_kids, x_exc, x_result >>

\* process.wait(timeout=timeout) is over: the shell has ended, or the
\* timeout has passed since the call and TimeoutExpired is raised. Logged
\* mode kills the shell before it re-raises (jobs.py:320-324); stream mode
\* has no such handler (jobs.py:267).
ProcessWait ==
    /\ UNCHANGED << baseVars, pubVars, stopVars, valVars, obsVars, onceVars >>
    /\ x_pc = "wait"
    /\ IF x_shell # "running"
       THEN /\ IF x_stream
               THEN /\ x_pc' = CheckReturncode(x_code[1]).pc
                    /\ x_exc' = CheckReturncode(x_code[1]).exc
                    /\ x_result' = CheckReturncode(x_code[1]).result
               ELSE /\ x_pc' = "join"
                    /\ UNCHANGED << x_exc, x_result >>
            /\ UNCHANGED << x_shell, x_code, x_exit_at, x_out >>
       ELSE /\ x_clock >= x_wait_at + x_timeout
            /\ x_pc' = "raised"
            /\ x_exc' = Some(ExceptClauses(Exc("TimeoutExpired", "", None)))
            /\ IF x_stream
               THEN UNCHANGED << x_shell, x_code, x_exit_at, x_out >>
               ELSE /\ x_shell' = "killed"
                    /\ x_code' = Some(-9)
                    /\ x_exit_at' = Some(x_clock)
                    /\ x_out' = (x_out /\ x_kids = "running")
            /\ UNCHANGED x_result
    /\ UNCHANGED << x_stream, x_timeout, x_clock, x_wait_at, x_kids >>

\* Logged mode: stdout_thread.join() and stderr_thread.join() return when
\* the pipes are at end of file; then the return code is looked at.
ThreadsJoin ==
    /\ UNCHANGED << baseVars, pubVars, stopVars, valVars, obsVars, onceVars >>
    /\ x_pc = "join"
    /\ ~x_out
    /\ x_pc' = CheckReturncode(x_code[1]).pc
    /\ x_exc' = CheckReturncode(x_code[1]).exc
    /\ x_result' = CheckReturncode(x_code[1]).result
    /\ UNCHANGED << x_stream, x_timeout, x_clock, x_wait_at, x_shell, x_code,
                    x_exit_at, x_out, x_kids >>

\* The shell ends by itself with an exit code; a descendant that is still
\* running keeps the pipe open.
ProcExits ==
    /\ UNCHANGED << baseVars, pubVars, stopVars, valVars, obsVars, onceVars >>
    /\ x_shell = "running"
    /\ \E code \in { 0, 1 } : x_code' = Some(code)
    /\ x_shell' = "exited"
    /\ x_exit_at' = Some(x_clock)
    /\ x_out' = (x_out /\ x_kids = "running")
    /\ UNCHANGED << x_pc, x_stream, x_timeout, x_clock, x_wait_at, x_kids,
                    x_exc, x_result >>

\* The command closes or redirects its stdout and runs on.
ProcClosesStdout ==
    /\ UNCHANGED << baseVars, pubVars, stopVars, valVars, obsVars, onceVars >>
    /\ x_shell = "running"
    /\ x_out
    /\ x_out' = FALSE
    /\ UNCHANGED << x_pc, x_stream, x_timeout, x_clock, x_wait_at, x_shell,
                    x_code, x_exit_at, x_kids, x_exc, x_result >>

\* The shell starts a child process (a command of a pipeline or list, a
\* background job); no new session or process group is asked of Popen.
ProcForks ==
    /\ UNCHANGED << baseVars, pubVars, stopVars, valVars, obsVars, onceVars >>
    /\ x_shell = "running"
    /\ x_kids = "none"
    /\ x_kids' = "running"
    /\ UNCHANGED << x_pc, x_stream, x_timeout, x_clock, x_wait_at, x_shell,
                    x_code, x_exit_at, x_out, x_exc, x_result >>

\* The descendants of the shell end.
ChildExits ==
    /\ UNCHANGED << baseVars, pubVars, stopVars, valVars, obsVars, onceVars >>
    /\ x_kids = "running"
    /\ x_kids' = "over"
    /\ x_out' = (x_out /\ x_shell = "running")
    /\ UNCHANGED << x_pc, x_stream, x_timeout, x_clock, x_wait_at, x_shell,
                    x_code, x_exit_at, x_exc, x_result >>

\* Time passes while execute_command is blocked; a process.wait that can
\* return, or whose timeout is up, does so before more time passes.
ExecTick ==
    /\ UNCHANGED << baseVars, pubVars, stopVars, valVars, obsVars, onceVars >>
    /\ x_pc \in { "read", "wait", "join" }
    /\ x_clock < MaxClock
    /\ ~(x_pc = "wait" /\ (x_shell # "running"
                            \/ x_clock >= x_wait_at + x_timeout))
    /\ x_clock' = x_clock + 1
    /\ UNCHANGED << x_pc, x_stream, x_timeout, x_wait_at, x_shell, x_code,
                    x_exit_at, x_out, x_kids, x_exc, x_result >>

\* No call of execute_command under way.
ExecIdle ==
    /\ x_pc = "idle"
    /\ x_stream = FALSE
    /\ x_timeout = 1
    /\ x_clock = 0
    /\ x_wait_at = 0
    /\ x_shell = "none"
    /\ x_code = None
    /\ x_exit_at = None
    /\ x_out = FALSE
    /\ x_kids = "none"
    /\ x_exc = None
    /\ x_result = None

\* A call of execute_command in either output mode, with a timeout.
ExecInit ==
    /\ x_pc = "idle"
    /\ x_stream \in BOOLEAN
    /\ x_timeout \in 1..MaxTimeout
    /\ x_clock = 0
    /\ x_wait_at = 0
    /\ x_shell = "none"
    /\ x_code = None
    /\ x_exit_at = None
    /\ x_out = FALSE
    /\ x_kids = "none"
    /\ x_exc = None
    /\ x_result = None

(***************************************************************************)
(* _write_pid_file and _remove_pid_file as whole calls of one service     *)
(* (service.py:555-605)                                                    *)
(***************************************************************************)
\* os.getpid() of the service, and the PID of another scheduler process.
OwnPid == 1
OtherPid == 2

\* The keys of scheduler_info (service.py:567-576).
InfoFields ==
    { "pid", "started_at", "config_path", "job_store_path", "data_dir",
      "log_dir", "history_file", "working_directory" }

\* scheduler_info: the PID, datetime.now() and the paths of the process
\* (the paths of one process stay the same, here 0).
scheduler_info(pid, now) ==
    [f \in InfoFields |->
        CASE f = "pid" -> pid
          [] f = "started_at" -> now
          [] OTHER -> 0]

write_text_appends(text, pid) ==
    IF text = None THEN Some(<< pid >>) ELSE Some(text[1] \o << pid >>)

\* pid_file.write_text(str(os.getpid())): the file is created or replaced.
write_text(text, pid) == Some(<< pid >>)

remove_pid_file_unguarded(pid, info) ==
    [pid |-> None, info |-> None, raised |-> (pid = None \/ info = None)]

\* _remove_pid_file: each file is unlinked when it exists; OSError is
\* swallowed.
remove_pid_file(pid, info) ==
    [pid |-> IF pid # None THEN None ELSE pid,
     info |-> IF info # None THEN None ELSE info,
     raised |-> FALSE]

\* A call of _write_pid_file: the PID file, the info file (an OSError of
\* open or dump is logged and the file left as it is), atexit.register.
WritePidFile ==
    /\ UNCHANGED << baseVars, execVars, stopVars, valVars, obsVars, onceVars >>
    /\ w_hooks < MaxHooks
    /\ w_pid' = write_text(w_pid, OwnPid)
    /\ w_info' = IF w_writable THEN Some(scheduler_info(OwnPid, w_now))
                 ELSE w_info
    /\ w_hooks' = w_hooks + 1
    /\ w_raised' = FALSE
    /\ w_last' = "write"
    /\ w_streak' = IF w_last = "write" THEN 2 ELSE 1
    /\ UNCHANGED << w_now, w_writable >>

\* A call of _remove_pid_file.
RemovePidFile ==
    /\ UNCHANGED << baseVars, execVars, stopVars, valVars, obsVars, onceVars >>
    /\ w_pid' = remove_pid_file(w_pid, w_info).pid
    /\ w_info' = remove_pid_file(w_pid, w_info).info
    /\ w_raised' = remove_pid_file(w_pid, w_info).raised
    /\ w_last' = "remove"
    /\ w_streak' = IF w_last = "remove" THEN 2 ELSE 1
    /\ UNCHANGED << w_now, w_writable, w_hooks >>

\* Another scheduler process writes its PID and info files over these.
OtherWrites ==
    /\ UNCHANGED << baseVars, execVars, stopVars, valVars, obsVars, onceVars >>
    /\ w_pid' = write_text(w_pid, OtherPid)
    /\ w_info' = IF w_writable THEN Some(scheduler_info(OtherPid, w_now))
                 ELSE w_info
    /\ w_last' = "other"
    /\ w_streak' = 0
    /\ UNCHANGED << w_now, w_writable, w_hooks, w_raised >>

\* Another process unlinks the PID file (is_scheduler_running on a stale
\* file, cmd_stop after SIGKILL).
OtherUnlinks ==
    /\ UNCHANGED << baseVars, execVars, stopVars, valVars, obsVars, onceVars >>
    /\ w_pid # None
    /\ w_pid' = None
    /\ w_last' = "other"
    /\ w_streak' = 0
    /\ UNCHANGED << w_info, w_now, w_writable, w_hooks, w_raised >>

\* Time passes.
PubTick ==
    /\ UNCHANGED << baseVars, execVars, stopVars, valVars, obsVars, onceVars >>
    /\ w_now < MaxNow
    /\ w_now' = w_now + 1
    /\ UNCHANGED << w_pid, w_info, w_writable, w_hooks, w_last, w_streak,
                    w_raised >>

\* No service at work on the files.
PubIdle ==
    /\ w_pid = None
    /\ w_info = None
    /\ w_now = 0
    /\ w_writable = TRUE
    /\ w_hooks = 0
    /\ w_last = "none"
    /\ w_streak = 0
    /\ w_raised = FALSE

\* A service about to call, on a data directory where the info file can or
\* cannot be written.
PubInit ==
    /\ w_pid = None
    /\ w_info = None
    /\ w_now = 0
    /\ w_writable \in BOOLEAN
    /\ w_hooks = 0
    /\ w_last = "none"
    /\ w_streak = 0
    /\ w_raised = FALSE

(***************************************************************************)
(* SIGTERM to a running service: the signal handler (service.py:243-252),  *)
(* stop() (service.py:607-620) and cmd_stop (cli.py:131-167), with time in *)
(* seconds                                                                 *)
(***************************************************************************)
\* range(10): the polls of cmd_stop, one second apart.
StopPolls == 10

\* cmd_stop leaves its loop after StopPolls polls and sends SIGKILL.
KillAfterPolls(polls) == polls >= StopPolls

\* A signal is sent to the service by something other than cmd_stop (the
\* terminal, kill): signal_handler calls self.stop(), which finds the
\* scheduler running and enters scheduler.shutdown(wait=True).
SignalDelivered ==
    /\ UNCHANGED << baseVars, execVars, pubVars, valVars, obsVars, onceVars >>
    /\ g_pc = "running"
    /\ g_pc' = "shutdown"
    /\ UNCHANGED << g_left, g_status, g_pid, g_info, g_cmd, g_polls >>

\* cmd_stop reads the PID file and sends SIGTERM, then starts to poll.
CmdStopTerm ==
    /\ UNCHANGED << baseVars, execVars, pubVars, valVars, obsVars, onceVars >>
    /\ g_pc = "running"
    /\ g_cmd = "idle"
    /\ g_pid
    /\ g_pc' = "shutdown"
    /\ g_cmd' = "sleep"
    /\ UNCHANGED << g_left, g_status, g_pid, g_info, g_polls >>

\* scheduler.shutdown(wait=True) returns: no run is in flight any more.
StopShutdownReturns ==
    /\ UNCHANGED << baseVars, execVars, pubVars, valVars, obsVars, onceVars >>
    /\ g_pc = "shutdown"
    /\ g_left = 0
    /\ g_pc' = "remove"
    /\ UNCHANGED << g_left, g_status, g_pid, g_info, g_cmd, g_polls >>

\* stop() calls _remove_pid_file() and returns to the handler.
StopRemovesFiles ==
    /\ UNCHANGED << baseVars, execVars, pubVars, valVars, obsVars, onceVars >>
    /\ g_pc = "remove"
    /\ g_pid' = FALSE
    /\ g_info' = FALSE
    /\ g_pc' = "exit"
    /\ UNCHANGED << g_left, g_status, g_cmd, g_polls >>

\* sys.exit(0) in the handler: the process is gone.
HandlerExits ==
    /\ UNCHANGED << baseVars, execVars, pubVars, valVars, obsVars, onceVars >>
    /\ g_pc = "exit"
    /\ g_pc' = "gone"
    /\ UNCHANGED << g_left, g_status, g_pid, g_info, g_cmd, g_polls >>

\* The handler has a step to take without waiting.
HandlerCanStep ==
    \/ g_pc = "shutdown" /\ g_left = 0
    \/ g_pc \in { "remove", "exit" }

\* One second passes: the run in flight is a second nearer its end, and at
\* its end execute_with_retry records its final status; time.sleep(1) of
\* cmd_stop returns. The handler and cmd_stop take their steps first.
Second ==
    /\ UNCHANGED << baseVars, execVars, pubVars, valVars, obsVars, onceVars >>
    /\ g_pc = "shutdown"
    /\ ~HandlerCanStep
    /\ g_cmd \in { "idle", "sleep" }
    /\ g_left' = g_left - 1
    /\ g_status' = IF g_left = 1 THEN "final" ELSE g_status
    /\ g_cmd' = IF g_cmd = "sleep" THEN "check" ELSE g_cmd
    /\ UNCHANGED << g_pc, g_pid, g_info, g_polls >>

\* cmd_stop after a sleep: os.kill(pid, 0) raises when the process is gone,
\* the PID file is unlinked and cmd_stop returns; else the loop goes on, and
\* after the last poll SIGKILL is sent and the PID file unlinked.
CmdStopPoll ==
    /\ UNCHANGED << baseVars, execVars, pubVars, valVars, obsVars, onceVars >>
    /\ g_cmd = "check"
    /\ ~HandlerCanStep
    /\ IF g_pc = "gone"
       THEN /\ g_cmd' = "done"
            /\ g_pid' = FALSE
            /\ UNCHANGED << g_pc, g_polls >>
       ELSE /\ g_polls' = g_polls + 1
            /\ IF KillAfterPolls(g_polls + 1)
               THEN /\ g_pc' = "killed"
                    /\ g_pid' = FALSE
                    /\ g_cmd' = "done"
               ELSE /\ g_cmd' = "sleep"
                    /\ UNCHANGED << g_pc, g_pid >>
    /\ UNCHANGED << g_left, g_status, g_info >>

\* cmd_stop goes on sleeping and polling after the service has gone.
CmdStopSleeps ==
    /\ UNCHANGED << baseVars, execVars, pubVars, valVars, obsVars, onceVars >>
    /\ g_cmd = "sleep"
    /\ g_pc = "gone"
    /\ g_cmd' = "check"
    /\ UNCHANGED << g_pc, g_left, g_status, g_pid, g_info, g_polls >>

\* No service under a signal.
StopIdle ==
    /\ g_pc = "running"
    /\ g_left = 0
    /\ g_status = "none"
    /\ g_pid = TRUE
    /\ g_info = TRUE
    /\ g_cmd = "idle"
    /\ g_polls = 0

\* A running service that has published its files, with no run in flight
\* or with one that has some seconds to go.
StopInit ==
    /\ g_pc = "running"
    /\ g_left \in 0..MaxLeft
    /\ g_status = IF g_left = 0 THEN "none" ELSE "running"
    /\ g_pid = TRUE
    /\ g_info = TRUE
    /\ g_cmd = "idle"
    /\ g_polls = 0

(***************************************************************************)
(* SchedulerConfig.validate applied to a configuration (config.py:255-284) *)
(***************************************************************************)
WeeklySchedule(day, time) ==
    [ Schedule("weekly", time, None, None, None) EXCEPT !.day = day ]

\* The schedules explored, by what the trigger would make of them.
\*   weekly monday "02:00" | interval hours=1 minutes=0
\*   weekly funday "02:00" | interval hours=-1 minutes=5
\*   daily without time | weekly without day | interval hours=0 minutes=0
\*   | interval without hours and minutes | cron without expression
WeeklyOk == WeeklySchedule(Some("monday"), Some(<< Num(2), Num(0) >>))
IntervalHours == Schedule("interval", None, Some(1), Some(0), None)
WeeklyFunday == WeeklySchedule(Some("funday"), Some(<< Num(2), Num(0) >>))
IntervalNegative == Schedule("interval", None, Some(-1), Some(5), None)
DailyNoTime == Schedule("daily", None, None, None, None)
WeeklyNoDay == WeeklySchedule(None, Some(<< Num(2), Num(0) >>))
IntervalZero == Schedule("interval", None, Some(0), Some(0), None)
IntervalNone == Schedule("interval", None, None, None, None)
CronNone == Schedule("cron", None, None, None, None)

Schedules ==
    { CronA, DailyOk, IntervalOk, WeeklyOk, IntervalHours,
      CronFour, DailyWord, DailyRange, WeeklyFunday, IntervalNegative,
      DailyNoTime, WeeklyNoDay, IntervalZero, IntervalNone, CronNone }

\* The jobs a configuration may hold under a name: every schedule with a
\* command and the default timeout, and a good schedule with a blank
\* command or a timeout that is not positive.
ConfigJobs(name) ==
    { JobConfig(name, "run", TRUE, sch, 3600) : sch \in Schedules }
    \cup { JobConfig(name, command, TRUE, DailyOk, 3600) : command \in { "", " " } }
    \cup { JobConfig(name, "run", TRUE, DailyOk, timeout) : timeout \in { 0, -1 } }

\* errors = config.validate()
Validate ==
    /\ UNCHANGED << baseVars, execVars, pubVars, stopVars, obsVars, onceVars >>
    /\ v_errors = None
    /\ v_errors' = Some(validate(v_cfg))
    /\ UNCHANGED v_cfg

\* No configuration under validation.
ValidateIdle ==
    /\ v_cfg = [n \in Names |-> None]
    /\ v_errors = None

\* A configuration of up to one job for each name, not yet validated.
ValidateInit ==
    /\ v_cfg \in [Names -> { None } \cup { Some(j) : j \in UNION { ConfigJobs(n) : n \in Names } }]
    /\ \A n \in Names : v_cfg[n] # None => v_cfg[n][1].name = n
    /\ v_errors = None

(***************************************************************************)
(* A second process observing a live scheduler: cmd_history                *)
(* (cli.py:589-606) and cmd_status / cmd_list (cli.py:170-299), while a    *)
(* run of the live scheduler uses the history file (jobs.py:53-113,        *)
(* 184-189, 393-451)                                                       *)
(***************************************************************************)
\* The PID of the live scheduler; the run_id of its run and of a run
\* recorded earlier.
LivePid == "pid"
LiveRun == "run"
OldRun == "old"

\* _read_history on the file: a file that is missing or empty reads as [].
ReadFile(file) == IF file = None THEN << >> ELSE file[1]

\* is_scheduler_running() as the observer calls it: the PID file is
\* unlinked only when the process it names is gone.
ObserverIsRunning(pid_file, live) ==
    IF pid_file = None
    THEN [running |-> FALSE, pid_file |-> pid_file]
    ELSE IF live
         THEN [running |-> TRUE, pid_file |-> pid_file]
         ELSE [running |-> FALSE, pid_file |-> None]

\* Where a HistoryStore call goes after the step at pc.
AfterStep(pc) ==
    CASE pc = "ens_open" -> "ens_dump"
      [] pc = "add_open" -> "add_dump"
      [] pc = "upd_open" -> "upd_dump"

\* HistoryStore(): _ensure_file_exists looks whether the file exists, in
\* the live scheduler at the start of its run.
LiveEnsure ==
    /\ UNCHANGED << baseVars, execVars, pubVars, stopVars, valVars, onceVars >>
    /\ q_lpc = "new"
    /\ q_lpc' = IF q_file = None THEN "ens_open" ELSE "add_read"
    /\ q_actor' = "live"
    /\ UNCHANGED << q_file, q_pid, q_llocal, q_opc, q_seen >>

\* add_run / update_run in the live scheduler: history = _read_history()
\* and the change in memory.
LiveRead ==
    /\ UNCHANGED << baseVars, execVars, pubVars, stopVars, valVars, onceVars >>
    /\ q_lpc \in { "add_read", "upd_read" }
    /\ q_llocal' = IF q_lpc = "add_read"
                   THEN add_run(ReadFile(q_file), RunningRecord(LiveRun), 1000)
                   ELSE update_run(ReadFile(q_file), LiveRun, FinalUpdates)
    /\ q_lpc' = IF q_lpc = "add_read" THEN "add_open" ELSE "upd_open"
    /\ q_actor' = "live"
    /\ UNCHANGED << q_file, q_pid, q_opc, q_seen >>

\* _write_history in the live scheduler: open(history_file, 'w') leaves an
\* empty file.
LiveOpen ==
    /\ UNCHANGED << baseVars, execVars, pubVars, stopVars, valVars, onceVars >>
    /\ q_lpc \in { "ens_open", "add_open", "upd_open" }
    /\ q_file' = Some(<< >>)
    /\ q_lpc' = AfterStep(q_lpc)
    /\ q_actor' = "live"
    /\ UNCHANGED << q_pid, q_llocal, q_opc, q_seen >>

\* _write_history in the live scheduler: json.dump writes the list.
LiveDump ==
    /\ UNCHANGED << baseVars, execVars, pubVars, stopVars, valVars, onceVars >>
    /\ q_lpc \in { "ens_dump", "add_dump", "upd_dump" }
    /\ q_file' = Some(IF q_lpc = "ens_dump" THEN << >> ELSE q_llocal)
    /\ q_lpc' = CASE q_lpc = "ens_dump" -> "add_read"
                  [] q_lpc = "add_dump" -> "upd_read"
                  [] q_lpc = "upd_dump" -> "done"
    /\ q_actor' = "live"
    /\ UNCHANGED << q_pid, q_llocal, q_opc, q_seen >>

\* cmd_status / cmd_list in the observer: get_scheduler_info(),
\* is_scheduler_running() and a SELECT on the job store.
ObserveStatus ==
    /\ UNCHANGED << baseVars, execVars, pubVars, stopVars, valVars, onceVars >>
    /\ q_opc = "off"
    /\ q_pid' = ObserverIsRunning(q_pid, TRUE).pid_file
    /\ q_opc' = "status"
    /\ q_actor' = "obs"
    /\ UNCHANGED << q_file, q_lpc, q_llocal, q_seen >>

\* cmd_history in the observer: get_scheduler_info(), then HistoryStore()
\* looks whether the history file exists.
ObserveEnsure ==
    /\ UNCHANGED << baseVars, execVars, pubVars, stopVars, valVars, onceVars >>
    /\ q_opc = "off"
    /\ q_pid' = ObserverIsRunning(q_pid, TRUE).pid_file
    /\ q_opc' = IF q_file = None THEN "ens_open" ELSE "get"
    /\ q_actor' = "obs"
    /\ UNCHANGED << q_file, q_lpc, q_llocal, q_seen >>

\* _write_history([]) in the observer: open(history_file, 'w').
ObserveOpen ==
    /\ UNCHANGED << baseVars, execVars, pubVars, stopVars, valVars, onceVars >>
    /\ q_opc = "ens_open"
    /\ q_file' = Some(<< >>)
    /\ q_opc' = AfterStep(q_opc)
    /\ q_actor' = "obs"
    /\ UNCHANGED << q_pid, q_lpc, q_llocal, q_seen >>

\* _write_history([]) in the observer: json.dump([]).
ObserveDump ==
    /\ UNCHANGED << baseVars, execVars, pubVars, stopVars, valVars, onceVars >>
    /\ q_opc = "ens_dump"
    /\ q_file' = Some(<< >>)
    /\ q_opc' = "get"
    /\ q_actor' = "obs"
    /\ UNCHANGED << q_pid, q_lpc, q_llocal, q_seen >>

\* get_history() in the observer: one _read_history().
ObserveGet ==
    /\ UNCHANGED << baseVars, execVars, pubVars, stopVars, valVars, onceVars >>
    /\ q_opc = "get"
    /\ q_seen' = Some(ReadFile(q_file))
    /\ q_opc' = "shown"
    /\ q_actor' = "obs"
    /\ UNCHANGED << q_file, q_pid, q_lpc, q_llocal >>

\* No observer and no live scheduler.
ObserveIdle ==
    /\ q_file = None
    /\ q_pid = None
    /\ q_lpc = "new"
    /\ q_llocal = << >>
    /\ q_opc = "off"
    /\ q_seen = None
    /\ q_actor = "init"

\* A live scheduler that has published its PID and is about to record a
\* run; the history file is missing, or holds the record of an earlier run
\* or none.
ObserveInit ==
    /\ q_file \in { None, Some(<< >>),
                    Some(<< update_run(<< RunningRecord(OldRun) >>, OldRun,
                                       FinalUpdates)[1] >>) }
    /\ q_pid = Some(LivePid)
    /\ q_lpc = "new"
    /\ q_llocal = << >>
    /\ q_opc = "off"
    /\ q_seen = None
    /\ q_actor = "init"

(***************************************************************************)
(* `job-scheduler run-once --at / --background` (cli.py:443-459): a CLI    *)
(* process that builds a SchedulerService, calls add_one_time_job          *)
(* (service.py:369-422) and exits, beside a running scheduler on the same  *)
(* job store                                                               *)
(***************************************************************************)
\* The CLI processes, each with the id of the job it adds, and the id of a
\* job added inside the process of the running scheduler.
CliProcs == { "c1", "c2" }
LiveJob == "o"

\* scheduler.add_job(...) of the library on a scheduler in the given
\* state: a running scheduler writes the job to its job store, one that
\* was never started keeps it in its list of pending jobs.
scheduler_add_job(state, store, pending, job_id) ==
    IF state = "running"
    THEN [store |-> store \cup { job_id }, pending |-> pending]
    ELSE [store |-> store, pending |-> pending \cup { job_id }]

\* service = SchedulerService(config_path=args.config) in a CLI process:
\* a BackgroundScheduler that is not started.
CliBuild(c) ==
    /\ UNCHANGED << baseVars, execVars, pubVars, stopVars, valVars, obsVars >>
    /\ u_cli[c] = "off"
    /\ u_cli' = [u_cli EXCEPT ![c] = "built"]
    /\ UNCHANGED << u_store, u_pending, u_seen, u_ran >>

\* job_id = service.add_one_time_job(...) returns in the CLI process.
CliAddOneTimeJob(c) ==
    /\ UNCHANGED << baseVars, execVars, pubVars, stopVars, valVars, obsVars >>
    /\ u_cli[c] = "built"
    /\ LET r == scheduler_add_job("stopped", u_store, u_pending[c], c)
       IN  /\ u_store' = r.store
           /\ u_pending' = [u_pending EXCEPT ![c] = r.pending]
    /\ u_cli' = [u_cli EXCEPT ![c] = "returned"]
    /\ UNCHANGED << u_seen, u_ran >>

\* cmd_run_once logs and returns: the CLI process exits, and its scheduler
\* object with it.
CliExit(c) ==
    /\ UNCHANGED << baseVars, execVars, pubVars, stopVars, valVars, obsVars >>
    /\ u_cli[c] = "returned"
    /\ u_cli' = [u_cli EXCEPT ![c] = "exited"]
    /\ u_pending' = [u_pending EXCEPT ![c] = { }]
    /\ UNCHANGED << u_store, u_seen, u_ran >>

\* add_one_time_job called in the process of the running scheduler.
LiveAddOneTimeJob ==
    /\ UNCHANGED << baseVars, execVars, pubVars, stopVars, valVars, obsVars >>
    /\ LiveJob \notin u_store \cup u_ran
    /\ u_store' = scheduler_add_job("running", u_store, { }, LiveJob).store
    /\ UNCHANGED << u_cli, u_pending, u_seen, u_ran >>

\* The running scheduler finds a one-shot job of its store due: it submits
\* the run and removes the job from the store.
LiveRunsDue ==
    /\ UNCHANGED << baseVars, execVars, pubVars, stopVars, valVars, obsVars >>
    /\ \E job_id \in u_store :
        /\ u_store' = u_store \ { job_id }
        /\ u_ran' = u_ran \cup { job_id }
    /\ UNCHANGED << u_cli, u_pending, u_seen >>

\* get_persisted_jobs() in another process: the ids in the store.
GetPersistedJobs ==
    /\ UNCHANGED << baseVars, execVars, pubVars, stopVars, valVars, obsVars >>
    /\ u_seen' = Some(u_store)
    /\ UNCHANGED << u_store, u_cli, u_pending, u_ran >>

\* The state before any run-once command: an empty store.
OnceInit ==
    /\ u_store = { }
    /\ u_cli = [c \in CliProcs |-> "off"]
    /\ u_pending = [c \in CliProcs |-> { }]
    /\ u_seen = None
    /\ u_ran = { }

(***************************************************************************)
(* Specifications                                                          *)
(***************************************************************************)
InitRetry == RetryInit /\ SvcIdle /\ DispInit /\ IntervalIdle /\ DailyIdle /\ HistIdle /\ StoreIdle /\ ExecIdle /\ PubIdle /\ StopIdle /\ ValidateIdle /\ ObserveIdle /\ OnceInit

NextRetry ==
    \/ RetryBegin
    \/ RetryAttempt
    \/ RetrySleep
    \/ RetryExhausted
    \/ RetryDone

SpecRetry == InitRetry /\ [][NextRetry]_vars

NextRetryOthers ==
    \/ NextRetry
    \/ OtherRunAdds

SpecRetryOthers == InitRetry /\ [][NextRetryOthers]_vars

InitSvc == RetryInit /\ SvcInit /\ DispInit /\ IntervalIdle /\ DailyIdle /\ HistIdle /\ StoreIdle /\ ExecIdle /\ PubIdle /\ StopIdle /\ ValidateIdle /\ ObserveIdle /\ OnceInit

NextSvc ==
    \E p \in Procs :
        \/ Spawn(p)
        \/ StartCheck(p)
        \/ LoadJobs(p)
        \/ SchedStart(p)
        \/ WritePid(p)
        \/ OpenInfo(p)
        \/ DumpInfo(p)
        \/ AfterStart(p)
        \/ LoopCheck(p)
        \/ Signal(p)
        \/ StopShutdown(p)
        \/ RemovePid(p)
        \/ RemoveInfo(p)
        \/ Exit(p)
        \/ Kill(p)

SpecSvc == InitSvc /\ [][NextSvc]_vars

NextSvcStop ==
    \/ NextSvc
    \/ CmdStop

SpecSvcStop == InitSvc /\ [][NextSvcStop]_vars

\* One service, started and stopped again and again over the persistent job
\* store, while job-management commands edit the configuration file.
TheProc == 1

InitLoad == RetryInit /\ SvcIdle /\ DispInit /\ IntervalIdle /\ DailyIdle /\ HistIdle /\ StoreIdle /\ ExecIdle /\ PubIdle /\ StopIdle /\ ValidateIdle /\ ObserveIdle /\ OnceInit

NextLoad ==
    \/ Spawn(TheProc)
    \/ StartCheck(TheProc)
    \/ LoadJobs(TheProc)
    \/ SchedStart(TheProc)
    \/ WritePid(TheProc)
    \/ OpenInfo(TheProc)
    \/ DumpInfo(TheProc)
    \/ AfterStart(TheProc)
    \/ Signal(TheProc)
    \/ StopShutdown(TheProc)
    \/ RemovePid(TheProc)
    \/ RemoveInfo(TheProc)
    \/ Exit(TheProc)
    \/ CmdAdd
    \/ CmdRemove
    \/ CmdSetEnabled

SpecLoad == InitLoad /\ [][NextLoad]_vars

InitDispatch == RetryInit /\ SvcIdle /\ DispInit /\ IntervalIdle /\ DailyIdle /\ HistIdle /\ StoreIdle /\ ExecIdle /\ PubIdle /\ StopIdle /\ ValidateIdle /\ ObserveIdle /\ OnceInit

NextDispatch ==
    \/ Tick
    \/ \E j \in DJobs : ProcessJob(j)
    \/ WorkerStart
    \/ WorkerFinish

SpecDispatch == InitDispatch /\ [][NextDispatch]_vars

NextEngine ==
    \/ Tick
    \/ \E j \in DJobs : ProcessJob(j)
    \/ WorkerStart
    \/ WorkerFinish
    \/ \E o \in OJobs : \E run_at \in 0..MaxTime : AddOneShot(o, run_at)
    \/ \E o \in OJobs : ProcessOnce(o)
    \/ StopCall
    \/ ShutdownReturns
    \/ StopRemoveFiles
    \/ EngineKill
    \/ EngineStart

SpecEngine == InitDispatch /\ [][NextEngine]_vars

InitInterval == RetryInit /\ SvcIdle /\ DispInit /\ IntervalInit /\ DailyIdle /\ HistIdle /\ StoreIdle /\ ExecIdle /\ PubIdle /\ StopIdle /\ ValidateIdle /\ ObserveIdle /\ OnceInit

NextInterval ==
    \/ IntervalWake
    \/ IntervalProcess
    \/ IntervalRunEnds

SpecInterval == InitInterval /\ [][NextInterval]_vars

InitDaily ==
    RetryInit /\ SvcIdle /\ DispInit /\ IntervalIdle /\ DailyInit /\ HistIdle
        /\ StoreIdle /\ ExecIdle /\ PubIdle /\ StopIdle /\ ValidateIdle /\ ObserveIdle /\ OnceInit

NextDaily ==
    \/ DailyAdd
    \/ DailyTick
    \/ DailyProcess

SpecDaily == InitDaily /\ [][NextDaily]_vars

InitHistRace ==
    RetryInit /\ SvcIdle /\ DispInit /\ IntervalIdle /\ DailyIdle /\ HistIdle
        /\ StoreIdle /\ ExecIdle /\ PubIdle /\ StopIdle /\ ValidateIdle /\ ObserveIdle /\ OnceInit

NextHistRace ==
    \E w \in Writers :
        \/ HAddRead(w)
        \/ HOpen(w)
        \/ HDump(w)
        \/ HUpdRead(w)

SpecHistRace == InitHistRace /\ [][NextHistRace]_vars

InitHistSeq ==
    RetryInit /\ SvcIdle /\ DispInit /\ IntervalIdle /\ DailyIdle /\ HistSeqInit
        /\ StoreIdle /\ ExecIdle /\ PubIdle /\ StopIdle /\ ValidateIdle /\ ObserveIdle /\ OnceInit

NextHistSeq ==
    \/ HistAdd
    \/ HistUpdate

SpecHistSeq == InitHistSeq /\ [][NextHistSeq]_vars

InitStore ==
    RetryInit /\ SvcIdle /\ DispInit /\ IntervalIdle /\ DailyIdle /\ HistIdle
        /\ StoreInit /\ ExecIdle /\ PubIdle /\ StopIdle /\ ValidateIdle /\ ObserveIdle /\ OnceInit

NextStore ==
    \/ StoreLoad
    \/ \E name \in Names : \E enabled \in BOOLEAN : StoreAdd(name, enabled)
    \/ \E name \in Names : StoreRemove(name)
    \/ \E name \in Names : \E kwargs \in UpdateKwargs : StoreUpdate(name, kwargs)
    \/ \E name \in Names : \E enabled \in BOOLEAN : StoreSetEnabled(name, enabled)
    \/ StoreSave

SpecStore == InitStore /\ [][NextStore]_vars

InitJobOps == InitStore

NextJobOps ==
    \/ StoreLoad
    \/ \E name \in Names : StoreRemove(name)
    \/ \E name \in Names : \E kwargs \in UpdateKwargs : StoreUpdate(name, kwargs)
    \/ \E name \in Names : \E enabled \in BOOLEAN : StoreSetEnabled(name, enabled)
    \/ \E name \in Names : SvcAddJob(name)
    \/ \E name \in Names : SvcRemoveJob(name)

SpecJobOps == InitJobOps /\ [][NextJobOps]_vars

InitExec ==
    RetryInit /\ SvcIdle /\ DispInit /\ IntervalIdle /\ DailyIdle /\ HistIdle
        /\ StoreIdle /\ ExecInit /\ PubIdle /\ StopIdle /\ ValidateIdle /\ ObserveIdle /\ OnceInit

NextExec ==
    \/ Popen
    \/ ReadStdout
    \/ ProcessWait
    \/ ThreadsJoin
    \/ ProcExits
    \/ ProcClosesStdout
    \/ ProcForks
    \/ ChildExits
    \/ ExecTick

SpecExec == InitExec /\ [][NextExec]_vars

\* The call is made, each step of execute_command that can be taken is
\* taken, and time passes; nothing is assumed of the command.
SpecExecLive ==
    /\ SpecExec
    /\ WF_vars(Popen)
    /\ WF_vars(ReadStdout)
    /\ WF_vars(ProcessWait)
    /\ WF_vars(ThreadsJoin)
    /\ WF_vars(ExecTick)

InitPub ==
    RetryInit /\ SvcIdle /\ DispInit /\ IntervalIdle /\ DailyIdle /\ HistIdle
        /\ StoreIdle /\ ExecIdle /\ PubInit /\ StopIdle /\ ValidateIdle /\ ObserveIdle /\ OnceInit

NextPub ==
    \/ WritePidFile
    \/ RemovePidFile
    \/ OtherWrites
    \/ OtherUnlinks
    \/ PubTick

SpecPub == InitPub /\ [][NextPub]_vars

InitStop ==
    RetryInit /\ SvcIdle /\ DispInit /\ IntervalIdle /\ DailyIdle /\ HistIdle
        /\ StoreIdle /\ ExecIdle /\ PubIdle /\ StopInit /\ ValidateIdle /\ ObserveIdle /\ OnceInit

NextStop ==
    \/ SignalDelivered
    \/ CmdStopTerm
    \/ StopShutdownReturns
    \/ StopRemovesFiles
    \/ HandlerExits
    \/ Second
    \/ CmdStopPoll
    \/ CmdStopSleeps

SpecStop == InitStop /\ [][NextStop]_vars

InitValidate ==
    RetryInit /\ SvcIdle /\ DispInit /\ IntervalIdle /\ DailyIdle /\ HistIdle
        /\ StoreIdle /\ ExecIdle /\ PubIdle /\ StopIdle /\ ValidateInit /\ ObserveIdle /\ OnceInit

NextValidate == Validate

SpecValidate == InitValidate /\ [][NextValidate]_vars

InitObserve ==
    RetryInit /\ SvcIdle /\ DispInit /\ IntervalIdle /\ DailyIdle /\ HistIdle
        /\ StoreIdle /\ ExecIdle /\ PubIdle /\ StopIdle /\ ValidateIdle
        /\ ObserveInit /\ OnceInit

NextObserve ==
    \/ LiveEnsure
    \/ LiveRead
    \/ LiveOpen
    \/ LiveDump
    \/ ObserveStatus
    \/ ObserveEnsure
    \/ ObserveOpen
    \/ ObserveDump
    \/ ObserveGet

SpecObserve == InitObserve /\ [][NextObserve]_vars

InitOnce ==
    RetryInit /\ SvcIdle /\ DispInit /\ IntervalIdle /\ DailyIdle /\ HistIdle
        /\ StoreIdle /\ ExecIdle /\ PubIdle /\ StopIdle /\ ValidateIdle
        /\ ObserveIdle /\ OnceInit

NextOnce ==
    \/ \E c \in CliProcs : CliBuild(c)
    \/ \E c \in CliProcs : CliAddOneTimeJob(c)
    \/ \E c \in CliProcs : CliExit(c)
    \/ LiveAddOneTimeJob
    \/ LiveRunsDue
    \/ GetPersistedJobs

SpecOnce == InitOnce /\ [][NextOnce]_vars

(***************************************************************************)
(* Claims about the dispatch loop                                          *)
(***************************************************************************)
\* C1: every job id has at most one execution in flight, and a tick of a
\* job that comes due while its run is in flight is skipped: no execution
\* is started or queued by it, and the job's next fire time moves on.
C1_OneInFlightPerJob ==
    /\ [](\A j \in DJobs : Cardinality(InFlight(j)) <= 1)
    /\ [][\A j \in DJobs :
            (d_next'[j] # d_next[j] /\ InFlight(j) # { }) =>
                /\ d_execs' = d_execs
                /\ d_skipped'[j] = d_skipped[j] + 1
                /\ d_next'[j] > d_now]_vars

\* A tick of job a was skipped while a run of a is in flight.
C1_Witness ==
    /\ d_skipped["a"] > 0
    /\ InFlight("a") # { }

(***************************************************************************)
(* Claims about stop, one-shot jobs and missed runs                        *)
(***************************************************************************)
\* An execution of d_execs' that is no execution of d_execs carried on: it
\* was submitted by this step.
Submitted(e) ==
    /\ e \notin d_execs
    /\ [e EXCEPT !.st = "queued"] \notin d_execs

\* C11: once stop(wait=True) is called on a running engine no execution is
\* dispatched any more, stop returns only when no execution is in flight,
\* the PID and info files are removed only when the executions in flight
\* have finished, and the engine is stopped when stop has returned.
C11_StopWaitsForRuns ==
    /\ [][(d_stop \in { "shutdown", "remove", "returned" }) =>
            (\A e \in d_execs' : ~Submitted(e))]_vars
    /\ [](d_stop \in { "remove", "returned" } => d_execs = { })
    /\ [][(d_info /\ ~d_info') => d_execs = { }]_vars
    /\ [](d_stop = "returned" => d_state = "stopped" /\ ~d_info)

\* stop() has been called and waits for an execution in flight, the files
\* still in place; and a job is due that will not be dispatched.
C11_Witness ==
    /\ d_stop = "shutdown"
    /\ d_execs # { }
    /\ d_info
    /\ \E j \in DJobs : d_next[j] <= d_now

\* C12: a one-shot job whose run_at lay in the past when the scheduler
\* started is executed exactly once and is gone from the job store: the
\* run dispatched for it is executed when a pool worker takes it.
C12_PastOneShotRunsOnce ==
    [][\A e \in d_execs :
        ( /\ e.job \in OJobs
          /\ e.run_time < d_since
          /\ e.st = "queued"
          /\ e \notin d_execs'
          /\ d_stop' # "dead" ) =>
            /\ d_runs'[e.job] = 1
            /\ d_once'[e.job] = None]_vars

\* C13: a one-shot job is executed at most once over all runs and restarts
\* of the scheduler, and once its run has started (so also when it has
\* ended, returning or raising) its id is neither in the job store nor
\* pending.
C13_OneShotAtMostOnce ==
    \A o \in OJobs :
        /\ d_runs[o] <= 1
        /\ (d_runs[o] = 1 \/ InFlight(o) # { }) =>
              d_once[o] = None /\ d_pending[o] = None

\* The one-shot job has run and its run is over, and a scheduler started
\* later is running.
C13_Witness ==
    /\ d_runs["o"] = 1
    /\ InFlight("o") = { }
    /\ d_state = "running"
    /\ d_since > 0

\* C37: a start() that follows a stop or a kill leaves every recurring job
\* that is in the job store, and whose next fire time is still to come,
\* with the next fire time it had before.
C37_RestartKeepsNextFireTime ==
    [][(d_stop \in { "returned", "dead" } /\ d_state' = "running") =>
          \A j \in DJobs : d_next[j] > d_now => d_next'[j] = d_next[j]]_vars

\* C14: a recurring job that has missed fire times by more than the grace
\* period is run once for the gap: a step that moves its next run time from
\* the overdue one to a time to come submits a run of it (or finds its run
\* in flight), and a submitted run is never dropped.
C14_MissedRunsOnce ==
    [][\A j \in DJobs :
        /\ ( /\ d_next[j] + misfire_grace_time < d_now
             /\ d_next'[j] > d_now ) =>
               \/ InFlight(j) # { }
               \/ \E e \in d_execs' : e.job = j /\ Submitted(e)
        /\ d_missed'[j] = d_missed[j]]_vars

\* The executions that a pool worker is running.
Running == { e \in d_execs : e.st = "running" }

\* C15: at most max_workers executions run at a time, over all jobs, and
\* a command runs on a pool worker only: an execution starts running only
\* as a run that was submitted to the pool and waited there for a worker,
\* never in the step of the dispatch thread that submits it.
C15_AtMostMaxWorkers ==
    /\ [](Cardinality(Running) <= Workers)
    /\ [][\A e \in d_execs' :
            (e.st = "running" /\ e \notin d_execs) =>
                /\ [e EXCEPT !.st = "queued"] \in d_execs
                /\ d_next' = d_next
                /\ d_once' = d_once]_vars

\* Every worker of the pool is busy and a submitted run waits for one.
C15_Witness ==
    /\ Cardinality(Running) = Workers
    /\ \E e \in d_execs : e.st = "queued"

\* C16: any two consecutive fire times of an interval job with parameters
\* hours and minutes are exactly hours*3600 + minutes*60 seconds apart,
\* whether or not the run of the earlier fire time is over.
C16_IntervalExact ==
    LET hours == IF i_sched.hours = None THEN 0 ELSE i_sched.hours[1]
        minutes == IF i_sched.minutes = None THEN 0 ELSE i_sched.minutes[1]
    IN  /\ \A k \in 1..(Len(i_fired) - 1) :
              i_fired[k + 1] - i_fired[k] = hours * 3600 + minutes * 60
        /\ i_fired # << >> =>
              i_next - i_fired[Len(i_fired)] = hours * 3600 + minutes * 60

\* A job with both hours and minutes has fired three times while the run
\* of its first fire time is still in flight.
C16_Witness ==
    /\ Truthy(i_sched.hours) /\ Truthy(i_sched.minutes)
    /\ Len(i_fired) >= 3
    /\ i_run = Some(i_fired[1])

\* Today at T, for the instant t and the daily time of the job.
TodayAtT(t) ==
    (t \div DayInstants) * DayInstants
        + (c_sched.time[1][1].val * HourMinutes + c_sched.time[1][2].val)
            * MinuteInstants

C39_ReadsSeeBeforeOrAfter ==
    /\ [](\A w \in Writers :
            h_pc[w] \in { "add_dump", "upd_dump" } =>
                read_history \in { history, h_local[w] })
    /\ [][\A w \in Writers :
            (h_pc[w] = "add_dump" /\ h_pc'[w] = "added" /\ history # << >>) =>
                history' # << RunningRecord(w) >>]_vars

\* C18: when two writers have each made their add_run and update_run on
\* the history file, the history holds the record either of them added,
\* with the fields either of them updated.
C18_NoLostUpdate ==
    (\A w \in Writers : h_pc[w] = "done") =>
        \A w \in Writers :
            \E i \in 1..Len(history) :
                /\ history[i].run_id = w
                /\ history[i].status = "success"
                /\ history[i].exit_code = Some(0)

\* C19: after add_run calls made one after the other on a store with
\* max_entries = N, the history holds at most N records: the last N that
\* were added (all of them while there are fewer), in the order they were
\* added.
C19_CappedMostRecent ==
    LET k == IF Len(h_all) < h_max THEN Len(h_all) ELSE h_max
    IN  /\ Len(history) <= h_max
        /\ Len(history) = k
        /\ \A i \in 1..k : history[i].run_id = h_all[Len(h_all) - k + i]

\* More records were added than max_entries, one of the kept ones was
\* updated since.
C19_Witness ==
    /\ Len(h_all) >= h_max + 2
    /\ Len(history) = h_max
    /\ h_max >= 2
    /\ history[1].status = "success"

\* C20: after any sequence of load, add_job, remove_job, update_job,
\* enable_job, disable_job and save, no two jobs of the list have the same
\* name.
C20_NamesUnique ==
    \A i \in 1..Len(s_jobs) : \A k \in 1..Len(s_jobs) :
        i # k => s_jobs[i].name # s_jobs[k].name

(***************************************************************************)
(* Claims about failed runs in the dispatch loop                           *)
(***************************************************************************)
\* The step is the end of a run of job j in failure.
FailureOf(j) ==
    /\ d_outcome' = Some([job |-> j, raised |-> TRUE])
    /\ \E e \in d_execs : e.job = j /\ e.st = "running" /\ e \notin d_execs'
    /\ d_runs' = d_runs /\ d_missed' = d_missed /\ d_now' = d_now
    /\ d_stop' = d_stop /\ d_info' = d_info

\* C25: the end of a run in failure leaves the scheduler in the state it
\* was in (a running scheduler stays running), changes the next fire time
\* of no job, recurring or one-shot, and leaves every job with exactly as
\* many instances counted as it has runs in flight, so that the failed job
\* and the other jobs are submitted again when they are next due.
C25_FailureContained ==
    [][(\E f \in AllJobs : FailureOf(f)) =>
          /\ d_state' = d_state
          /\ d_next' = d_next
          /\ d_once' = d_once
          /\ \A j \in AllJobs :
                d_inst'[j] = Cardinality({ e \in d_execs' : e.job = j })]_vars

\* The run that ended last is a failed run of job a and, in a scheduler
\* still running, the next run of job a
\* is under way and a run of job b has been submitted.
C25_Witness ==
    /\ d_outcome = Some([job |-> "a", raised |-> TRUE])
    /\ d_state = "running"
    /\ \E e \in d_execs : e.job = "a" /\ e.st = "running" /\ e.run_time > 1
    /\ \E e \in d_execs : e.job = "b"

(***************************************************************************)
(* Claims about the calls on the job list                                  *)
(***************************************************************************)
\* The jobs of a list that have the name.
Named(jobs, name) == { i \in 1..Len(jobs) : jobs[i].name = name }

\* C21: add_job with a name the list already holds raises and leaves the
\* list and the file as they were; with a fresh name the list afterwards is
\* the list before with exactly that job appended.
C21_AddJobDuplicateOrAppend ==
    [][s_call'.op = "add_job" =>
         IF Named(s_jobs, s_call'.name) # { }
         THEN /\ s_ret' = "raised"
              /\ s_jobs' = s_jobs
              /\ s_file' = s_file
         ELSE /\ s_ret' = "ok"
              /\ Len(s_jobs') = Len(s_jobs) + 1
              /\ s_jobs'[Len(s_jobs')] = s_call'.arg[1]
              /\ \A i \in 1..Len(s_jobs) : s_jobs'[i] = s_jobs[i]
              /\ s_file' = s_file]_vars

\* A duplicate add_job has been refused with both jobs of the list intact.
C21_Witness ==
    /\ s_call.op = "add_job"
    /\ s_ret = "raised"
    /\ Len(s_jobs) = 2
    /\ Named(s_jobs, s_call.name) # { }

\* The calls that change the job list.
MutatingCalls ==
    { "add_job", "remove_job", "update_job", "enable_job", "disable_job" }

\* C22: when a mutating call (add_job, remove_job, update_job, enable_job,
\* disable_job) has returned, the file holds the list the call produced, so
\* that a load() in another process at that moment reads exactly that list.
C22_MutationPersisted ==
    [][(s_call'.op \in MutatingCalls /\ s_ret' # "raised") =>
          s_file' = s_jobs']_vars

\* The jobs of a list that come before position i and have the name.
NamedBefore(jobs, name, i) == { k \in Named(jobs, name) : k < i }

\* C30: a call that names a job id the store does not hold reports it and
\* changes nothing (config.remove_job and service.remove_job return False;
\* update_job, enable_job and disable_job raise); remove_job of an id the
\* store holds returns True, leaves no job of that id, and keeps every
\* other job, in order.
C30_NotFoundChangesNothing ==
    [][LET op == s_call'.op
           name == s_call'.name
           nothing == /\ s_jobs' = s_jobs
                      /\ s_file' = s_file
                      /\ s_table' = s_table
       IN  /\ op = "remove_job" =>
                IF Named(s_jobs, name) = { }
                THEN s_ret' = "false" /\ nothing
                ELSE /\ s_ret' = "true"
                     /\ Named(s_jobs', name) = { }
                     /\ Len(s_jobs') =
                           Len(s_jobs) - Cardinality(Named(s_jobs, name))
                     /\ \A i \in 1..Len(s_jobs) :
                           s_jobs[i].name # name =>
                              s_jobs'[i - Cardinality(NamedBefore(s_jobs, name, i))]
                                 = s_jobs[i]
                     /\ s_file' = s_file
                     /\ s_table' = s_table
           /\ (op \in { "update_job", "enable_job", "disable_job" }
                 /\ Named(s_jobs, name) = { }) =>
                s_ret' = "raised" /\ nothing
           /\ op = "service.remove_job" =>
                IF name \notin s_table
                THEN s_ret' = "false" /\ nothing
                ELSE /\ s_ret' = "true"
                     /\ s_table' = s_table \ { name }
                     /\ s_jobs' = s_jobs
                     /\ s_file' = s_file]_vars

\* remove_job of a name the list does not hold has returned False with the
\* list, and the jobs of the scheduler, still there.
C30_Witness ==
    /\ s_call.op = "remove_job"
    /\ s_ret = "false"
    /\ s_jobs # << >>
    /\ Named(s_jobs, s_call.name) = { }
    /\ s_table # { }

(***************************************************************************)
(* Claims about execute_command                                            *)
(***************************************************************************)
\* execute_command is blocked on a subprocess that is still running.
Blocked == x_pc \in { "read", "wait", "join" } /\ x_shell = "running"

\* execute_command raised its timeout error.
TimedOut == x_pc = "raised" /\ x_exc[1].msg = "timed out"

\* C23: in both output modes execute_command does not go on waiting for a
\* command that is still running timeout_seconds after its start, and once
\* it has raised the timeout error neither the subprocess nor a process of
\* its group is running.
C23_TimeoutTerminates ==
    /\ Blocked => x_clock <= x_timeout
    /\ TimedOut => (x_shell # "running" /\ x_kids # "running")

\* C24: execute_command returns only when the subprocess exited with code 0
\* within the timeout, and the result then has returncode 0; whatever it
\* raises is a JobExecutionError, raised for a non-zero exit with that exit
\* code and never for an exit code of 0.
C24_ReturnsIffExitZeroInTime ==
    /\ x_pc = "returned" =>
          /\ x_shell = "exited"
          /\ x_code = Some(0)
          /\ x_exit_at[1] <= x_timeout
          /\ x_result[1].returncode = 0
    /\ x_pc = "raised" =>
          /\ x_exc[1].type = "JobExecutionError"
          /\ x_exc[1].msg = "exit code" =>
                (x_exc[1].code = x_code /\ x_code # Some(0))

\* C32: every call of execute_command, in either output mode and whatever
\* the command does, eventually returns or raises.
C32_CallEventuallyEnds == <>(x_pc \in { "returned", "raised" })

(***************************************************************************)
(* Claims about _write_pid_file and _remove_pid_file                       *)
(***************************************************************************)
\* The set of fields of the info file (none when there is no file).
Fields(info) == IF info = None THEN { } ELSE DOMAIN info[1]

\* C26: a second call of _remove_pid_file right after the first leaves the
\* files as the first left them, and _remove_pid_file does not raise when
\* the files are absent; a second call of _write_pid_file right after the
\* first, in the same process, leaves the PID file with the same content
\* and the info file with the same set of fields.
C26_PublishWithdrawIdempotent ==
    [][/\ (w_last' = "remove" /\ w_streak' = 2) =>
              (w_pid' = w_pid /\ w_info' = w_info /\ ~w_raised')
       /\ (w_last' = "remove" /\ w_pid = None /\ w_info = None) =>
              (w_pid' = None /\ w_info' = None /\ ~w_raised')
       /\ (w_last' = "write" /\ w_streak' = 2) =>
              (w_pid' = w_pid /\ Fields(w_info') = Fields(w_info))]_vars

\* _write_pid_file was called twice in a row, the second time at a later
\* time than the first, and both files are there.
C26_Witness ==
    /\ w_last = "write"
    /\ w_streak = 2
    /\ w_hooks >= 2
    /\ w_pid = Some(<< OwnPid >>)
    /\ w_info # None
    /\ w_info[1]["started_at"] = MaxNow

(***************************************************************************)
(* Claims about signals                                                    *)
(***************************************************************************)
\* C27: a service that was running when SIGINT or SIGTERM reached it ends
\* through stop(wait=True): when its process is no more, it has exited by
\* itself, the run that was in flight has its final status recorded, and
\* the PID and info files are removed.
C27_SignalStopsGracefully ==
    g_pc \in { "gone", "killed" } =>
        /\ g_pc = "gone"
        /\ g_status # "running"
        /\ ~g_pid
        /\ ~g_info

(***************************************************************************)
(* Claims about validate                                                   *)
(***************************************************************************)
WeekdayNames ==
    { "monday", "tuesday", "wednesday", "thursday", "friday", "saturday",
      "sunday" }

\* A time of the form HH:MM within range.
TimeInRange(time) ==
    /\ time # None
    /\ Len(time[1]) = 2
    /\ \A i \in 1..2 : time[1][i].num
    /\ time[1][1].val \in 0..23
    /\ time[1][2].val \in 0..59

\* Valid trigger parameters, as the claim lists them.
ValidTrigger(sch) ==
    CASE sch.type = "interval" ->
            /\ \A x \in { sch.hours, sch.minutes } : x # None => x[1] >= 0
            /\ \E x \in { sch.hours, sch.minutes } : x # None /\ x[1] > 0
      [] sch.type = "daily" -> TimeInRange(sch.time)
      [] sch.type = "weekly" ->
            /\ TimeInRange(sch.time)
            /\ sch.day # None
            /\ sch.day[1] \in WeekdayNames
      [] sch.type = "cron" -> sch.cron # None /\ Len(sch.cron[1]) = 5
      [] OTHER -> FALSE

\* C28: when validate() has returned an empty error list, every job of the
\* configuration has a command that is not blank, a positive timeout and
\* valid trigger parameters.
C28_ValidateAcceptsOnlyValid ==
    (v_errors # None /\ v_errors[1] = { }) =>
        \A j \in JobsOf(v_cfg) :
            /\ ~IsBlank(j.command)
            /\ j.timeout > 0
            /\ ValidTrigger(j.schedule)

(***************************************************************************)
(* Claims about observers                                                  *)
(***************************************************************************)
\* C31: a step of an observer command run while a scheduler is live leaves
\* the history, as a reader finds it in the file, and the PID file of the
\* live scheduler as they were.
C31_ObserverChangesNothing ==
    [][q_actor' = "obs" =>
          /\ ReadFile(q_file') = ReadFile(q_file)
          /\ q_pid' = q_pid]_vars

(***************************************************************************)
(* Claims about run-once                                                   *)
(***************************************************************************)
\* C33: once add_one_time_job has returned in a CLI process, the job it
\* added is in the persistent job store until the running scheduler has
\* executed it.
C33_QueuedJobIsPersisted ==
    \A c \in CliProcs :
        u_cli[c] \in { "returned", "exited" } => c \in u_store \cup u_ran

(***************************************************************************)
(* Claims about execute_with_retry                                         *)
(***************************************************************************)
AllFailed(outs) == \A i \in 1..Len(outs) : outs[i] # "exit0"

RunEnded == r_pc \in { "returned", "raised" }

\* What the fields of a record say together: 'running' exactly when
\* end_time and elapsed_seconds are null, 'success' with exit_code 0 and no
\* error, 'failed' with an error.
RecordConsistent(record) ==
    /\ record.status = "running" <=>
          (record.end_time = None /\ record.elapsed_seconds = None)
    /\ record.status = "success" =>
          (record.exit_code = Some(0) /\ record.error = None)
    /\ record.status = "failed" => record.error # None

\* C38: every record of the history file is consistent, and from one
\* content of the file to the next the record of a run keeps a status of
\* 'success' or 'failed' once it has it.
C38_StatusMovesForwardOnly ==
    /\ [](\A i \in 1..Len(history) : RecordConsistent(history[i]))
    /\ [][\A i \in 1..Len(history) : \A j \in 1..Len(history') :
            (history[i].run_id = history'[j].run_id
                /\ history[i].status # "running") =>
                    history'[j].status = history[i].status]_vars

\* C35: once execute_with_retry has returned or raised, the history holds
\* a record with the run_id of the run whose status is 'success' or
\* 'failed', whatever other runs added to the history meanwhile.
C35_EndedRunIsRecorded ==
    RunEnded =>
        \E i \in RecordsOf(history, r_id) :
            history[i].status \in { "success", "failed" }

\* C36: a run that has ended invoked the command at least once, and at most
\* max_retries times when max_retries allows an invocation at all; a record
\* of the run with status 'failed' stands for at least one invocation.
C36_CommandInvokedBeforeFailure ==
    /\ RunEnded =>
          /\ Len(r_outs) >= 1
          /\ (r_max >= 1 => Len(r_outs) <= r_max)
    /\ \A i \in RecordsOf(history, r_id) :
          history[i].status = "failed" => Len(r_outs) >= 1

\* C2: with max_retries = n >= 1 and a command that fails on every attempt,
\* the command is invoked exactly n times (never more on the way), the run
\* ends by raising, and the history holds exactly one record with the run's
\* run_id, with status 'failed' and attempts = n.
C2_ExhaustedRunFailsOnce ==
    (r_id > 0 /\ r_max >= 1 /\ AllFailed(r_outs)) =>
        /\ Len(r_outs) <= r_max
        /\ r_pc # "returned"
        /\ RunEnded =>
            /\ r_pc = "raised"
            /\ Len(r_outs) = r_max
            /\ Cardinality(RecordsOf(history, r_id)) = 1
            /\ \A i \in RecordsOf(history, r_id) :
                  /\ history[i].status = "failed"
                  /\ history[i].attempts = r_max

\* A run with max_retries = 3 has failed three times and raised.
C2_Witness ==
    /\ r_pc = "raised"
    /\ r_max = MaxRetriesCfg
    /\ Len(r_outs) = MaxRetriesCfg
    /\ AllFailed(r_outs)

\* C3: when the command first succeeds on attempt k <= max_retries, no
\* attempt follows it, the returned stats say 'success' with attempts = k,
\* and the run's single record ends 'success', exit_code 0, attempts = k,
\* with end_time and elapsed_seconds set.
C3_SuccessOnAttemptK ==
    /\ \A i \in 1..(Len(r_outs) - 1) : r_outs[i] # "exit0"
    /\ (r_id > 0 /\ ~AllFailed(r_outs)) =>
        LET k == Len(r_outs)
        IN  /\ r_pc \in { "returned", "idle" }
            /\ k <= r_max
            /\ r_stats = Some([status |-> "success", attempts |-> k,
                               returncode |-> Some(0)])
            /\ Cardinality(RecordsOf(history, r_id)) = 1
            /\ \A i \in RecordsOf(history, r_id) :
                  /\ history[i].status = "success"
                  /\ history[i].exit_code = Some(0)
                  /\ history[i].attempts = k
                  /\ history[i].end_time # None
                  /\ history[i].elapsed_seconds # None

\* A run succeeded on its second attempt.
C3_Witness ==
    /\ r_pc = "returned"
    /\ Len(r_outs) > 1
    /\ r_outs[Len(r_outs)] = "exit0"

\* C29: in a run of execute_with_retry every sleep lasts exactly
\* retry_delay_minutes * 60 seconds, the same before every retry, and the
\* sleeps are exactly the gaps between attempts: one after each failed
\* attempt that another attempt follows, none after the final failed
\* attempt and none after a success.
C29_SleepOnlyBetweenAttempts ==
    LET attemptComes == r_pc = "loop" /\ LoopContinues(r_attempt, r_max)
    IN  /\ \A i \in 1..Len(r_slept) : r_slept[i] = r_delay * 60
        /\ Len(r_slept) =
              IF attemptComes \/ r_outs = << >>
              THEN Len(r_outs)
              ELSE Len(r_outs) - 1
        /\ r_pc = "sleep" => (AllFailed(r_outs) /\ r_attempt < r_max)

\* A run with retry_delay_minutes = 2 and max_retries = 3 has raised after
\* three failed attempts and two sleeps of 120 seconds.
C29_Witness ==
    /\ r_pc = "raised"
    /\ r_max = 3
    /\ r_delay = 2
    /\ AllFailed(r_outs)
    /\ r_slept = << 120, 120 >>

(***************************************************************************)
(* Claims about start(), stop() and the liveness files                     *)
(***************************************************************************)
\* The PID file names a live process.
LiveOwner ==
    /\ pidFile[SvcPidPath] # None
    /\ alive[pidFile[SvcPidPath][1]]

\* The PID file names a process that is gone.
StaleOwner ==
    /\ pidFile[SvcPidPath] # None
    /\ ~alive[pidFile[SvcPidPath][1]]

\* C4: start() called while the PID file names a live process returns
\* without raising (the process lives on, the call is over) and without
\* starting the scheduler, loading jobs or writing the PID and info files.
C4_RefusedStartChangesNothing ==
    /\ [][\A p \in Procs :
            (last' = Op(p, "start_check") /\ spc[p] = "new" /\ LiveOwner) =>
                /\ spc'[p] = "refused"
                /\ alive'[p]
                /\ UNCHANGED << running, everRan, table, jobStore, pidFile,
                                infoFile >>]_vars
    /\ [](\A p \in Procs :
            spc[p] = "refused" => ~running[p] /\ table[p] = { })

\* A start() was refused because the PID file names another, live process.
C4_Witness ==
    \E p \in Procs : \E q \in Procs \ { p } :
        /\ spc[p] = "refused"
        /\ alive[q] /\ running[q]
        /\ isr[p] = Some([running |-> TRUE, pid |-> Some(q), unlinked |-> FALSE])
        /\ pidFile[SvcPidPath] = Some(q)

\* The live instance q has published itself in the PID file.
Published(q) ==
    /\ alive[q]
    /\ running[q]
    /\ pidFile[SvcPidPath] = Some(q)

\* C5: a process whose start was refused, or whose service never reached
\* Running, never overwrites or removes the PID file and the info file that
\* a live instance published: no step of such a process changes them.
C5_NonOwnerLeavesFilesAlone ==
    [][\A p \in Procs :
        ( /\ last'.proc = p
          /\ ~everRan[p]
          /\ ~everRan'[p]
          /\ \E q \in Procs \ { p } : Published(q) ) =>
            /\ pidFile'[SvcPidPath] = pidFile[SvcPidPath]
            /\ infoFile' = infoFile]_vars

\* start() has gone as far as it goes while the scheduler runs: it has
\* returned, or it blocks in the foreground scheduler's main loop.
StartDone == { "ret", "blocked" }

\* C6: when the PID file holds the PID of a process that is gone,
\* is_scheduler_running() returns (False, None) and the PID file exists no
\* longer; the start() that follows then goes on and publishes its own PID.
C6_StaleFileClearedThenPublished ==
    /\ [][\A p \in Procs :
            ( /\ last' \in { Op(p, "start_check"), Op(p, "loop_check") }
              /\ StaleOwner ) =>
                /\ isr'[p] = Some([running |-> FALSE, pid |-> None,
                                   unlinked |-> TRUE])
                /\ pidFile'[SvcPidPath] = None
                /\ (last'.op = "start_check" => spc'[p] = "load")]_vars
    /\ [](\A p \in Procs :
            ( /\ isr[p] # None
              /\ isr[p][1].unlinked
              /\ spc[p] \in StartDone
              /\ running[p] ) => pidFile[SvcPidPath] = Some(p))

\* What the claim calls an invalid job definition: an empty command, a
\* cron expression without five fields, a malformed time, a timeout <= 0.
InvalidDefinition(job) ==
    \/ IsBlank(job.command)
    \/ job.timeout <= 0
    \/ job.schedule.type = "cron" /\ CronRaises(job.schedule.cron)
    \/ job.schedule.type \in { "daily", "weekly" } /\ TimeRaises(job.schedule.time)

\* C7: when a job definition of the configuration is invalid, start()
\* aborts: the scheduler is not started, no job is loaded, and the start
\* never gets to writing the PID and info files.
C7_InvalidConfigAborts ==
    \A p \in Procs :
        (alive[p] /\ \E j \in JobsOf(svcCfg[p]) : InvalidDefinition(j)) =>
            /\ ~running[p]
            /\ ~everRan[p]
            /\ table[p] = { }
            /\ spc[p] \notin { "sched", "blocked", "wpid", "winfo", "wdump", "ret" }

EnabledNames(cfg) == { j.name : j \in get_enabled_jobs(cfg) }

\* C8: after a successful start() the job ids in the trigger table and in
\* the job store are exactly the names of the enabled jobs of the
\* configuration read at that start; stated here for the configurations
\* all of whose jobs are valid, so that every enabled job can be added.
C8_TableMatchesConfig ==
    \A p \in Procs :
        ( /\ running[p]
          /\ \A j \in JobsOf(svcCfg[p]) : ~InvalidDefinition(j) ) =>
            /\ table[p] = EnabledNames(svcCfg[p])
            /\ jobStore = EnabledNames(svcCfg[p])

\* The PID file and the complete info file exist and name p.
FilesName(p) ==
    /\ pidFile[SvcPidPath] = Some(p)
    /\ infoFile = Some([pid |-> p, complete |-> TRUE])

\* C9: while an engine is Running after its start() has returned, the PID
\* file and the info file exist and name its process; when stop() on a
\* Running engine has returned, neither file exists.
C9_FilesWhileRunning ==
    \A p \in Procs :
        /\ (running[p] /\ spc[p] \in { "ret", "bgloop" }) => FilesName(p)
        /\ (everRan[p] /\ spc[p] = "stopret") =>
              pidFile[SvcPidPath] = None /\ infoFile = None

\* C40: when is_scheduler_running() reports (True, pid) and `stop` is run,
\* `stop` signals that pid, and when it is over the process is gone,
\* is_scheduler_running() reports (False, None) and neither the PID file
\* nor the info file is left.
C40_StopAgreesWithService ==
    [][(last'.op = "cmd_stop" /\ is_scheduler_running(pidFile).running) =>
          /\ Some(last'.proc) = is_scheduler_running(pidFile).pid
          /\ ~alive'[last'.proc]
          /\ ~is_scheduler_running(pidFile)'.running
          /\ pidFile'[SvcPidPath] = None
          /\ infoFile' = None]_vars

\* C34: at no time are the dispatch loops of two processes running, and a
\* PID file that exists while a loop runs names the process of that loop.
C34_SingleRunningLoop ==
    /\ Cardinality({ p \in Procs : running[p] }) <= 1
    /\ \A p \in Procs :
          (running[p] /\ pidFile[SvcPidPath] # None) =>
              pidFile[SvcPidPath] = Some(p)

\* C10: no state that another process can observe has a dispatch loop
\* running without the info file, or the PID file present without the
\* complete info file.
C10_PublicationAtomic ==
    /\ \A p \in Procs : running[p] => infoFile # None
    /\ pidFile[SvcPidPath] # None =>
          infoFile # None /\ infoFile[1].complete

=============================================================================
